---- MODULE Spec2Model ----
(***************************************************************************)
(* Topic normalization and question deduplication of the PDF-to-Quiz       *)
(* generator: TopicNormalizer (core/topic_normalization.py), Deduplicator  *)
(* (core/deduplication.py) and DeduplicationAgent (agents/dedup_agent.py). *)
(*                                                                         *)
(* Conventions.  A Python str on which the code does character work        *)
(* (strip, split, lower, len) is a sequence of one-character strings;      *)
(* opaque strs (question_type, answer, annotations) are TLA+ strings and   *)
(* question ids are numbers.  A similarity is an integer number of         *)
(* hundredths (0.85 is 85).  A dict names its absent keys in `absent`.       *)
(* The embedding model, KMeans, silhouette_score, TfidfVectorizer and the  *)
(* LLM client are libraries or services outside the repository: what they *)
(* return is chosen nondeterministically among the outcomes they can have. *)
(***************************************************************************)
EXTENDS Integers, Sequences, FiniteSets, TLC

VARIABLES
    similarity_threshold, \* Deduplicator / DeduplicationAgent: self.similarity_threshold
    questions,            \* deduplicate_questions: the caller's question list
    embedding_sim,        \* embedding_model: cosine similarity of the embeddings of two distinct texts
    answer_sim,           \* calculate_similarity (TF-IDF cosine) of two distinct answers
    dedup,                \* what the last deduplicate_questions call returned
    previous,             \* the earlier call whose unique_questions `questions` now is, if any
    group,                \* _select_diverse_questions: questions of one topic
    max_count,            \* _select_diverse_questions: the cap
    selection,            \* what _select_diverse_questions returned
    subtopics,            \* normalize_topics: the raw subtopic list
    target_topic_count,   \* TopicNormalizer.target_topic_count
    normalization,        \* what normalize_topics returned
    topic_mapping,        \* map_questions_to_normalized_topics: the mapping
    mapped,               \* what the topic mapper returned
    pdfs,                 \* the pdf_documents table: the committed row of each PDFDocument
    quizzes               \* the quizzes table: the committed row of each Quiz

vars == <<similarity_threshold, questions, embedding_sim, answer_sim, dedup, previous, group, max_count,
          selection, subtopics, target_topic_count, normalization, topic_mapping, mapped,
          pdfs, quizzes>>

dedupVars == <<similarity_threshold, questions, embedding_sim, answer_sim, dedup, previous>>
selectVars == <<group, max_count, selection>>
normVars == <<subtopics, target_topic_count, normalization>>
mapVars == <<topic_mapping, mapped>>
pipelineVars == <<pdfs, quizzes>>

NoResult == [outcome |-> "none"]

(***************************************************************************)
(* Python helpers                                                          *)
(***************************************************************************)
Range(s) == {s[i] : i \in DOMAIN s}

Min2(a, b) == IF a <= b THEN a ELSE b

\* dict.get(key, default)
Get(d, key, default) == IF key \in d.absent THEN default ELSE d[key]

RECURSIVE SumSeq(_)
SumSeq(s) == IF s = <<>> THEN 0 ELSE Head(s) + SumSeq(Tail(s))

\* the list [x for x in s if x in keep], for a list of numbers
RECURSIVE FilterSeq(_, _)
FilterSeq(s, keep) ==
    IF s = <<>> THEN <<>>
    ELSE (IF Head(s) \in keep THEN <<Head(s)>> ELSE <<>>) \o FilterSeq(Tail(s), keep)

\* the numbers of a finite set in ascending order
RECURSIVE Ascending(_)
Ascending(S) ==
    IF S = {} THEN <<>>
    ELSE LET m == CHOOSE x \in S : \A y \in S : x <= y
         IN <<m>> \o Ascending(S \ {m})

IsSpace(c) == c \in {" ", "\t", "\n"}

\* str.lower(), on the letters the model uses
LowerChar(c) ==
    CASE c = "M" -> "m"
      [] c = "L" -> "l"
      [] c = "W" -> "w"
      [] c = "A" -> "a"
      [] c = "B" -> "b"
      [] OTHER -> c

\* the string as it is, upper case kept
NoCaseFolding(s) == s

lower(s) == [i \in DOMAIN s |-> LowerChar(s[i])]

\* str.split(): the maximal runs of non-whitespace characters, in order
split(s) ==
    LET starts == {i \in DOMAIN s : ~IsSpace(s[i]) /\ (i = 1 \/ IsSpace(s[i - 1]))}
        end(i) == CHOOSE j \in i..Len(s) :
                      /\ \A k \in i..j : ~IsSpace(s[k])
                      /\ (j = Len(s) \/ IsSpace(s[j + 1]))
        at == Ascending(starts)
    IN [m \in DOMAIN at |-> SubSeq(s, at[m], end(at[m]))]

\* ' '.join(words)
RECURSIVE join(_)
join(words) ==
    IF words = <<>> THEN <<>>
    ELSE IF Len(words) = 1 THEN Head(words)
    ELSE Head(words) \o <<" ">> \o join(Tail(words))

(***************************************************************************)
(* The words and texts the inputs are built from                           *)
(***************************************************************************)
w_what == <<"w", "h", "a", "t">>
w_What == <<"W", "h", "a", "t">>
w_is == <<"i", "s">>
w_ml == <<"m", "l">>
w_dl == <<"d", "l">>
w_nn == <<"n", "n">>

TextA == join(<<w_what, w_is, w_ml>>)
TextB == join(<<w_What, w_ml>>)
TextC == join(<<w_ml, w_what, w_dl>>)
EmptyText == <<>>

\* the topic name "General"
General == <<"G", "e", "n", "e", "r", "a", "l">>

(***************************************************************************)
(* utils/similarity_utils.py                                               *)
(***************************************************************************)
WordSet(text) == Range(split(lower(text)))

\* calculate_jaccard_similarity(text1, text2) >= pct / 100
JaccardAtLeast(text1, text2, pct) ==
    LET words1 == WordSet(text1)
        words2 == WordSet(text2)
    IN IF words1 = {} \/ words2 = {} THEN 0 >= pct
       ELSE Cardinality(words1 \cap words2) * 100 >= pct * Cardinality(words1 \cup words2)

\* calculate_similarity(answer1, answer2): TF-IDF cosine, 1.0 on equal answers
calculate_similarity(answer1, answer2) ==
    IF answer1 = answer2 THEN 100 ELSE answer_sim[{answer1, answer2}]

\* cosine_similarity of the embeddings of two texts: 1.0 for the same text
CosineOfTexts(text1, text2) ==
    IF text1 = text2 THEN 100 ELSE embedding_sim[{text1, text2}]

(***************************************************************************)
(* core/deduplication.py: Deduplicator                                     *)
(***************************************************************************)
\* settings.SIMILARITY_THRESHOLD, also the default of __init__'s similarity_threshold
SIMILARITY_THRESHOLD == 85

\* _generate_embeddings: the model's embeddings, or all-zero vectors when
\* embed_batch raises
_generate_embeddings(embed_ok) == IF embed_ok THEN "model" ELSE "zeros"

\* cosine_similarity(embeddings)[i][j]; the cosine of a zero vector is 0
SimilarityMatrix(qs, embeddings, i, j) ==
    IF embeddings = "zeros" THEN 0
    ELSE CosineOfTexts(Get(qs[i], "question_text", EmptyText),
                       Get(qs[j], "question_text", EmptyText))

common_words == {<<"t", "h", "e">>, <<"a", "n", "d">>, <<"i", "s">>, <<"i", "n">>,
                 <<"t", "o">>, <<"o", "f">>, <<"a">>, <<"t", "h", "a", "t">>,
                 <<"i", "t">>, <<"w", "i", "t", "h">>}

\* the check without the non-empty guards and the lower-casing of the names
SameConceptByPlainEquality(question1, question2) ==
    LET words1 == Range(split(lower(Get(question1, "question_text", EmptyText))))
        words2 == Range(split(lower(Get(question2, "question_text", EmptyText))))
    IN \/ Get(question1, "subtopic", <<>>) = Get(question2, "subtopic", <<>>)
       \/ Get(question1, "normalized_topic", <<>>) = Get(question2, "normalized_topic", <<>>)
       \/ Cardinality((words1 \ common_words) \cap (words2 \ common_words)) >= 2

_check_same_concept(question1, question2) ==
    LET subtopic1 == lower(Get(question1, "subtopic", <<>>))
        subtopic2 == lower(Get(question2, "subtopic", <<>>))
        topic1 == lower(Get(question1, "normalized_topic", <<>>))
        topic2 == lower(Get(question2, "normalized_topic", <<>>))
        words1 == Range(split(lower(Get(question1, "question_text", EmptyText))))
        words2 == Range(split(lower(Get(question2, "question_text", EmptyText))))
        overlap == (words1 \ common_words) \cap (words2 \ common_words)
    IN IF subtopic1 # <<>> /\ subtopic2 # <<>> /\ subtopic1 = subtopic2 THEN TRUE
       ELSE IF topic1 # <<>> /\ topic2 # <<>> /\ topic1 = topic2 THEN TRUE
       ELSE Cardinality(overlap) >= 2

_are_questions_duplicate(question1, question2, embedding_similarity) ==
    LET text1 == Get(question1, "question_text", EmptyText)
        text2 == Get(question2, "question_text", EmptyText)
        answer1 == Get(question1, "answer", "")
        answer2 == Get(question2, "answer", "")
    IN IF Get(question1, "question_type", "None") # Get(question2, "question_type", "None")
       THEN FALSE
       ELSE IF embedding_similarity < similarity_threshold THEN FALSE
       ELSE IF ~JaccardAtLeast(text1, text2, 30) THEN FALSE
       ELSE IF answer1 # "" /\ answer2 # "" /\ calculate_similarity(answer1, answer2) < 50
            THEN FALSE
       ELSE _check_same_concept(question1, question2)

\* one entry of `duplicates`; idx and rep are the positions of the duplicate and of
\* the question it was compared with (bookkeeping of the model)
DuplicateEntryOfDuplicate(qs, embeddings, i, dup_idx) ==
    [question |-> qs[dup_idx],
     duplicate_of |-> qs[dup_idx].question_id,
     similarity_score |-> SimilarityMatrix(qs, embeddings, i, dup_idx),
     duplicate_reason |-> "semantic_similarity",
     idx |-> dup_idx,
     rep |-> dup_idx]

DuplicateEntry(qs, embeddings, i, dup_idx) ==
    [question |-> qs[dup_idx],
     duplicate_of |-> qs[i].question_id,
     similarity_score |-> SimilarityMatrix(qs, embeddings, i, dup_idx),
     duplicate_reason |-> "semantic_similarity",
     idx |-> dup_idx,
     rep |-> i]

RECURSIVE FindDuplicatesFrom(_, _, _, _, _)
FindDuplicatesFrom(qs, embeddings, i, processed, duplicates) ==
    IF i > Len(qs) THEN duplicates
    ELSE IF i \in processed
         THEN FindDuplicatesFrom(qs, embeddings, i + 1, processed, duplicates)
    ELSE LET current_duplicates ==
                 Ascending({j \in (i + 1)..Len(qs) :
                     /\ j \notin processed
                     /\ _are_questions_duplicate(qs[i], qs[j],
                                                 SimilarityMatrix(qs, embeddings, i, j))})
         IN FindDuplicatesFrom(qs, embeddings, i + 1,
                processed \cup Range(current_duplicates),
                duplicates \o [k \in DOMAIN current_duplicates |->
                                  DuplicateEntry(qs, embeddings, i, current_duplicates[k])])

_find_duplicates(qs, embeddings) == FindDuplicatesFrom(qs, embeddings, 1, {}, <<>>)

\* the positions of the questions _get_unique_questions keeps
KeepEveryQuestion(qs, duplicates) == Ascending(DOMAIN qs)

UniqueIndices(qs, duplicates) ==
    LET duplicate_ids == {duplicates[k].question.question_id : k \in DOMAIN duplicates}
    IN Ascending({i \in DOMAIN qs : qs[i].question_id \notin duplicate_ids})

_get_unique_questions(qs, duplicates) ==
    LET kept == UniqueIndices(qs, duplicates)
    IN [k \in DOMAIN kept |-> qs[kept[k]]]

\* q["question_id"] raises KeyError on a question without the key
RaisesKeyError(qs) == \E i \in DOMAIN qs : "question_id" \in qs[i].absent

\* the entries of the statistics the callers and tests read; the topic
\* distributions and the preservation rate do not feed back into the result
_calculate_deduplication_stats(original_questions, unique_questions, duplicates) ==
    LET total_original == Len(original_questions)
        total_duplicates == Len(duplicates)
    IN [total_original_questions |-> total_original,
        total_unique_questions |-> Len(unique_questions),
        total_duplicates_removed |-> total_duplicates,
        deduplication_rate |->
            IF total_original > 0 THEN <<total_duplicates, total_original>> ELSE <<0, 1>>,
        average_similarity_score |->
            IF total_duplicates > 0
            THEN <<SumSeq([k \in DOMAIN duplicates |-> duplicates[k].similarity_score]),
                   total_duplicates>>
            ELSE <<0, 1>>]

_add_deduplication_metadata(qs, duplicates) ==
    [k \in DOMAIN qs |->
        [qs[k] EXCEPT
            !.duplicate_count =
                Cardinality({d \in DOMAIN duplicates :
                                 duplicates[d].duplicate_of = qs[k].question_id}),
            !.is_unique_after_dedup = TRUE,
            !.absent = @ \ {"duplicate_count", "is_unique_after_dedup"}]]

\* Deduplicator.deduplicate_questions: the returned tuple, or the exception
deduplicate_questions(qs, embed_ok) ==
    IF Len(qs) <= 1
    THEN [outcome |-> "returned", impl |-> "Deduplicator", embed_failed |-> FALSE,
          unique_idx |-> Ascending(DOMAIN qs),
          unique_questions |-> qs,
          duplicates |-> <<>>,
          pairs |-> <<>>,
          stats |-> [total_questions |-> Len(qs), duplicates_removed |-> 0]]
    ELSE IF RaisesKeyError(qs)
    THEN [outcome |-> "raised", impl |-> "Deduplicator", embed_failed |-> ~embed_ok,
          exception |-> "KeyError"]
    ELSE LET question_embeddings == _generate_embeddings(embed_ok)
             duplicates == _find_duplicates(qs, question_embeddings)
             unique_questions == _get_unique_questions(qs, duplicates)
         IN [outcome |-> "returned", impl |-> "Deduplicator", embed_failed |-> ~embed_ok,
             unique_idx |-> UniqueIndices(qs, duplicates),
             unique_questions |-> _add_deduplication_metadata(unique_questions, duplicates),
             duplicates |-> duplicates,
             pairs |-> [k \in DOMAIN duplicates |->
                          [idx |-> duplicates[k].idx, rep |-> duplicates[k].rep]],
             stats |-> _calculate_deduplication_stats(qs, unique_questions, duplicates)]

\* the in-place effect of _add_deduplication_metadata on the caller's list
DeduplicatorMutation(qs, result) ==
    IF result.outcome # "returned" \/ Len(qs) <= 1 THEN qs
    ELSE [i \in DOMAIN qs |->
            IF \E k \in DOMAIN result.unique_idx : result.unique_idx[k] = i
            THEN result.unique_questions[CHOOSE k \in DOMAIN result.unique_idx :
                                             result.unique_idx[k] = i]
            ELSE qs[i]]

(***************************************************************************)
(* agents/dedup_agent.py: DeduplicationAgent                               *)
(***************************************************************************)
\* `needle in haystack` on strs
IsSubstring(needle, haystack) ==
    \E start \in 0..(Len(haystack) - Len(needle)) :
        \A k \in DOMAIN needle : haystack[start + k] = needle[k]

agent_check_same_concept(question1, question2) ==
    LET subtopic1 == lower(Get(question1, "subtopic", <<>>))
        subtopic2 == lower(Get(question2, "subtopic", <<>>))
        topic1 == lower(Get(question1, "normalized_topic", <<>>))
        topic2 == lower(Get(question2, "normalized_topic", <<>>))
        words1 == Range(split(lower(Get(question1, "question_text", EmptyText))))
        words2 == Range(split(lower(Get(question2, "question_text", EmptyText))))
        shared_keywords == (words1 \ common_words) \cap (words2 \ common_words)
    IN IF /\ subtopic1 # <<>> /\ subtopic2 # <<>>
          /\ \/ subtopic1 = subtopic2
             \/ IsSubstring(subtopic1, subtopic2)
             \/ IsSubstring(subtopic2, subtopic1)
       THEN TRUE
       ELSE IF topic1 # <<>> /\ topic2 # <<>> /\ topic1 = topic2 THEN TRUE
       ELSE Cardinality(shared_keywords) >= 2

\* _calculate_embedding_similarity
_calculate_embedding_similarity(text1, text2) ==
    IF text1 = <<>> \/ text2 = <<>> THEN 0 ELSE CosineOfTexts(text1, text2)

\* find_semantic_duplicates(question1, question2)["is_duplicate"]:
\*   0.4 emb + 0.2 jaccard + 0.2 word_overlap + 0.1 answer + 0.1 concept >= threshold,
\* multiplied through by 10 * |words1 | words2| (jaccard and word_overlap are both
\* |words1 & words2| / |words1 | words2|)
find_semantic_duplicates(question1, question2) ==
    LET text1 == Get(question1, "question_text", EmptyText)
        text2 == Get(question2, "question_text", EmptyText)
        answer1 == Get(question1, "answer", "")
        answer2 == Get(question2, "answer", "")
        words1 == WordSet(text1)
        words2 == WordSet(text2)
        none == words1 = {} \/ words2 = {}
        inter == IF none THEN 0 ELSE Cardinality(words1 \cap words2)
        union == IF none THEN 1 ELSE Cardinality(words1 \cup words2)
        embedding_similarity == _calculate_embedding_similarity(text1, text2)
        answer_similarity ==
            IF answer1 # "" /\ answer2 # "" THEN calculate_similarity(answer1, answer2) ELSE 0
        same_concept == IF agent_check_same_concept(question1, question2) THEN 100 ELSE 0
    IN (4 * embedding_similarity + answer_similarity + same_concept) * union + 400 * inter
           >= 10 * similarity_threshold * union

_are_questions_semantic_duplicates(question1, question2) ==
    LET answer1 == Get(question1, "answer", "")
        answer2 == Get(question2, "answer", "")
    IN IF Get(question1, "question_type", "None") # Get(question2, "question_type", "None")
       THEN FALSE
       ELSE IF answer1 # "" /\ answer2 # "" /\ calculate_similarity(answer1, answer2) < 30
            THEN FALSE
       ELSE find_semantic_duplicates(question1, question2)

\* the loop of deduplicate_questions: the [idx, rep] pairs of the duplicates found
RECURSIVE AgentScanFrom(_, _, _, _)
AgentScanFrom(qs, i, processed, found) ==
    IF i > Len(qs) THEN found
    ELSE IF i \in processed THEN AgentScanFrom(qs, i + 1, processed, found)
    ELSE LET similar ==
                 Ascending({j \in (i + 1)..Len(qs) :
                     /\ j \notin processed
                     /\ CosineOfTexts(Get(qs[i], "question_text", EmptyText),
                                      Get(qs[j], "question_text", EmptyText))
                            >= similarity_threshold
                     /\ _are_questions_semantic_duplicates(qs[i], qs[j])})
         IN AgentScanFrom(qs, i + 1, processed \cup {i} \cup Range(similar),
                          found \o [k \in DOMAIN similar |-> [idx |-> similar[k], rep |-> i]])

MarkUnique(q) ==
    [q EXCEPT !.is_unique = TRUE, !.duplicate_count = 0,
              !.absent = @ \ {"is_unique", "duplicate_count"}]

MarkDuplicate(q) ==
    [q EXCEPT !.is_unique = FALSE, !.duplicate_of = "similar_question",
              !.absent = @ \ {"is_unique", "duplicate_of"}]

\* DeduplicationAgent.deduplicate_questions: the returned pair, or the exception of
\* embed_batch, which nothing catches
agent_deduplicate_questions(qs, embed_ok) ==
    IF Len(qs) <= 1
    THEN [outcome |-> "returned", impl |-> "DeduplicationAgent", embed_failed |-> FALSE,
          unique_idx |-> Ascending(DOMAIN qs), unique_questions |-> qs,
          duplicate_questions |-> <<>>, pairs |-> <<>>]
    ELSE IF ~embed_ok
    THEN [outcome |-> "raised", impl |-> "DeduplicationAgent", embed_failed |-> TRUE,
          exception |-> "embed_batch"]
    ELSE LET pairs == AgentScanFrom(qs, 1, {}, <<>>)
             duplicate_indices == [k \in DOMAIN pairs |-> pairs[k].idx]
             unique_indices == Ascending(DOMAIN qs \ Range(duplicate_indices))
         IN [outcome |-> "returned", impl |-> "DeduplicationAgent", embed_failed |-> FALSE,
             unique_idx |-> unique_indices,
             unique_questions |-> [k \in DOMAIN unique_indices |->
                                      MarkUnique(qs[unique_indices[k]])],
             duplicate_questions |-> [k \in DOMAIN duplicate_indices |->
                                         MarkDuplicate(qs[duplicate_indices[k]])],
             pairs |-> pairs]

\* the in-place effect of the metadata loops on the caller's list
AgentMutation(qs, result) ==
    IF result.outcome # "returned" \/ Len(qs) <= 1 THEN qs
    ELSE [i \in DOMAIN qs |->
            IF \E k \in DOMAIN result.pairs : result.pairs[k].idx = i
            THEN MarkDuplicate(qs[i])
            ELSE MarkUnique(qs[i])]

(***************************************************************************)
(* The duplicate detectors as a state machine                              *)
(***************************************************************************)
MaxQuestions == 3

MetadataKeys == {"duplicate_count", "is_unique_after_dedup", "is_unique", "duplicate_of"}

\* a question dict as the generators build it, before any deduplication metadata
NewQuestion(id, text, qtype, answer, subtopic) ==
    [question_id |-> id, question_text |-> text, question_type |-> qtype,
     answer |-> answer, subtopic |-> subtopic, normalized_topic |-> <<>>,
     validation_score |-> 50, confidence_score |-> 50,
     duplicate_count |-> 0, is_unique_after_dedup |-> FALSE,
     is_unique |-> FALSE, duplicate_of |-> "",
     absent |-> MetadataKeys \cup {"normalized_topic", "validation_score", "confidence_score"}]

DedupContents ==
    {[text |-> TextA, qtype |-> "short_answer", answer |-> "a1", subtopic |-> w_ml],
     [text |-> TextB, qtype |-> "short_answer", answer |-> "a1", subtopic |-> w_ml],
     [text |-> TextC, qtype |-> "short_answer", answer |-> "a1", subtopic |-> w_dl],
     [text |-> TextA, qtype |-> "mcq", answer |-> "a2", subtopic |-> w_ml]}

\* Question ids are compared for equality only, so one id list stands for all its
\* renamings: the first question has id 1 and each later one an id already used or
\* the next unused one.
CanonicalIds(n) ==
    {ids \in [1..n -> 1..n] :
        \A i \in 1..n : \A v \in 1..(ids[i] - 1) : \E j \in 1..(i - 1) : ids[j] = v}

DedupInputs ==
    UNION {{[i \in 1..n |-> NewQuestion(ids[i], c[i].text, c[i].qtype, c[i].answer,
                                        c[i].subtopic)] :
               ids \in CanonicalIds(n), c \in [1..n -> DedupContents]} :
           n \in 0..MaxQuestions}

TextPairs == {{TextA, TextB}, {TextA, TextC}, {TextB, TextC}}
AnswerPairs == {{"a1", "a2"}}

SelectIdle == group = <<>> /\ max_count = 0 /\ selection = NoResult
NormIdle == subtopics = <<>> /\ target_topic_count = 0 /\ normalization = NoResult
MapIdle == topic_mapping = <<>> /\ mapped = NoResult
PipelineIdle == pdfs = <<>> /\ quizzes = <<>>

\* question dicts that lack keys: only question_text, nothing at all, only question_id
\* and answer; and a complete one
MalformedPool ==
    LET only(q, present) ==
            [q EXCEPT !.absent = (DOMAIN q \ {"absent"}) \ present]
    IN {only(NewQuestion(0, TextA, "", "", <<>>), {"question_text"}),
        only(NewQuestion(0, EmptyText, "", "", <<>>), {}),
        only(NewQuestion(1, EmptyText, "", "yes", <<>>), {"question_id", "answer"}),
        NewQuestion(2, TextA, "short_answer", "yes", w_ml)}

MalformedInputs == [1..2 -> MalformedPool] \cup [1..3 -> MalformedPool]

InitDedup ==
    /\ similarity_threshold = SIMILARITY_THRESHOLD
    /\ \/ /\ questions \in DedupInputs
          /\ embedding_sim \in [TextPairs -> {80, 85}]
       \/ /\ questions \in MalformedInputs
          /\ embedding_sim \in [{{TextA, EmptyText}} -> {80, 85}]
    /\ answer_sim \in [AnswerPairs -> {40}]
    /\ dedup = NoResult
    /\ previous = NoResult
    /\ SelectIdle /\ NormIdle /\ MapIdle /\ PipelineIdle

\* Deduplicator.deduplicate_questions(questions)
Deduplicate ==
    /\ dedup = NoResult
    /\ \E embed_ok \in BOOLEAN :
          /\ dedup' = deduplicate_questions(questions, embed_ok)
          /\ questions' = DeduplicatorMutation(questions, dedup')
    /\ UNCHANGED <<pipelineVars, similarity_threshold, embedding_sim, answer_sim, previous,
                   selectVars, normVars, mapVars>>

\* DeduplicationAgent.deduplicate_questions(questions)
AgentDeduplicate ==
    /\ dedup = NoResult
    /\ \E embed_ok \in BOOLEAN :
          /\ dedup' = agent_deduplicate_questions(questions, embed_ok)
          /\ questions' = AgentMutation(questions, dedup')
    /\ UNCHANGED <<pipelineVars, similarity_threshold, embedding_sim, answer_sim, previous,
                   selectVars, normVars, mapVars>>

\* the caller passes the unique_questions it got back to the detector again
Resubmit ==
    /\ dedup.outcome = "returned"
    /\ previous = NoResult
    /\ questions' = dedup.unique_questions
    /\ previous' = [outcome |-> "returned", impl |-> dedup.impl,
                    embed_failed |-> dedup.embed_failed, removed |-> Len(dedup.pairs)]
    /\ dedup' = NoResult
    /\ UNCHANGED <<pipelineVars, similarity_threshold, embedding_sim, answer_sim,
                   selectVars, normVars, mapVars>>

NextDedup == Deduplicate \/ AgentDeduplicate \/ Resubmit

SpecDedup == InitDedup /\ [][NextDedup]_vars

(***************************************************************************)
(* Properties of the duplicate detectors                                   *)
(***************************************************************************)
\* the duplicate test the call behind `result` applied to questions i and j
PassesDuplicateTest(result, qs, i, j) ==
    IF result.impl = "Deduplicator"
    THEN _are_questions_duplicate(qs[i], qs[j],
             SimilarityMatrix(qs, _generate_embeddings(~result.embed_failed), i, j))
    ELSE /\ CosineOfTexts(Get(qs[i], "question_text", EmptyText),
                          Get(qs[j], "question_text", EmptyText)) >= similarity_threshold
         /\ _are_questions_semantic_duplicates(qs[i], qs[j])

DuplicatePositions(result) == {result.pairs[k].idx : k \in DOMAIN result.pairs}

\* C2 (duplicate determinism): in every duplicate group the representative is the
\* member with the lowest original index: each duplicate is attributed to a question
\* that comes before it, passed the duplicate test with it and is itself nobody's
\* duplicate, no earlier such question passes the test with it, and the Deduplicator's
\* duplicate_of is the question_id of that representative.
C2_RepresentativeIsLowestIndex ==
    dedup.outcome = "returned" =>
        \A k \in DOMAIN dedup.pairs :
            LET idx == dedup.pairs[k].idx
                rep == dedup.pairs[k].rep
            IN /\ rep \in DOMAIN questions
               /\ idx \in DOMAIN questions
               /\ rep < idx
               /\ rep \notin DuplicatePositions(dedup)
               /\ PassesDuplicateTest(dedup, questions, rep, idx)
               /\ \A i \in 1..(rep - 1) :
                      i \notin DuplicatePositions(dedup)
                          => ~PassesDuplicateTest(dedup, questions, i, idx)
               /\ dedup.impl = "Deduplicator"
                      => dedup.duplicates[k].duplicate_of = questions[rep].question_id

\* a group of three: two duplicates attributed to the same earlier question
C2_Witness ==
    /\ dedup.outcome = "returned"
    /\ dedup.impl = "Deduplicator"
    /\ \E k, m \in DOMAIN dedup.pairs :
          /\ k # m
          /\ dedup.pairs[k].rep = dedup.pairs[m].rep
          /\ dedup.pairs[k].rep = 1

\* C4 (dedup idempotence): no two questions of unique_questions pass the duplicate
\* test against each other, and a second call on the unique_questions of a first call
\* (same detector, same similarities) keeps every question and finds no duplicate.
C4_DedupIdempotent ==
    /\ dedup.outcome = "returned" =>
          \A a, b \in Range(dedup.unique_idx) :
              a < b => ~PassesDuplicateTest(dedup, questions, a, b)
    /\ ( /\ previous.outcome = "returned"
         /\ dedup.outcome = "returned"
         /\ dedup.impl = previous.impl
         /\ (dedup.embed_failed = previous.embed_failed \/ Len(questions) <= 1) )
       => /\ dedup.pairs = <<>>
          /\ dedup.unique_idx = Ascending(DOMAIN questions)
          /\ Len(dedup.unique_questions) = Len(questions)

\* a second call on what was left after a first call removed duplicates
C4_Witness ==
    /\ previous.outcome = "returned"
    /\ previous.removed >= 1
    /\ ~previous.embed_failed
    /\ dedup.outcome = "returned"
    /\ dedup.impl = previous.impl
    /\ ~dedup.embed_failed
    /\ Len(questions) >= 2

\* C5 (partition of the question pool): after Deduplicator.deduplicate_questions every
\* input question is in unique_questions or is the `question` of exactly one duplicate
\* record, never both and never neither, so unique + duplicates = original.
C5_PartitionOfPool ==
    (dedup.outcome = "returned" /\ dedup.impl = "Deduplicator") =>
        /\ \A i \in DOMAIN questions :
              LET unique == i \in Range(dedup.unique_idx)
                  records == Cardinality({k \in DOMAIN dedup.pairs : dedup.pairs[k].idx = i})
              IN (unique /\ records = 0) \/ (~unique /\ records = 1)
        /\ Len(dedup.unique_questions) + Len(dedup.duplicates) = Len(questions)

\* C10 (failure semantics): when the embedding call fails the detector does not
\* raise, flags the statistics with similarity_method = "fallback", and still removes
\* questions that are lexical duplicates (Jaccard of the texts >= threshold and the
\* secondary test passes).
C10_EmbeddingFailureFallsBack ==
    (dedup.outcome # "none" /\ dedup.embed_failed) =>
        /\ dedup.outcome = "returned"
        /\ "stats" \in DOMAIN dedup
        /\ "similarity_method" \in DOMAIN dedup.stats
        /\ dedup.stats.similarity_method = "fallback"
        /\ \A a, b \in Range(dedup.unique_idx) :
              (a < b /\ JaccardAtLeast(questions[a].question_text,
                                       questions[b].question_text, similarity_threshold))
                  => ~_are_questions_duplicate(questions[a], questions[b], 100)

\* C11 (all-duplicates case): when all n >= 2 input questions pairwise pass the
\* duplicate test, Deduplicator.deduplicate_questions returns exactly one unique
\* question, the first in input order, and n - 1 duplicates all attributed to it, with
\* deduplication_rate = (n - 1) / n.
C11_AllDuplicates ==
    ( /\ dedup.outcome # "none"
      /\ dedup.impl = "Deduplicator"
      /\ Len(questions) >= 2
      /\ \A i, j \in DOMAIN questions :
            i < j => PassesDuplicateTest(dedup, questions, i, j) )
    => /\ dedup.outcome = "returned"
       /\ dedup.unique_idx = <<1>>
       /\ Len(dedup.unique_questions) = 1
       /\ Len(dedup.duplicates) = Len(questions) - 1
       /\ \A k \in DOMAIN dedup.pairs : dedup.pairs[k].rep = 1
       /\ \A k \in DOMAIN dedup.duplicates :
              dedup.duplicates[k].duplicate_of = questions[1].question_id
       /\ dedup.stats.deduplication_rate = <<Len(questions) - 1, Len(questions)>>

\* C12 (empty and single-item inputs): for an input of 0 or 1 questions,
\* Deduplicator.deduplicate_questions returns the input as unique, no duplicates, and
\* statistics with total_original_questions = total_unique_questions = len(input),
\* total_duplicates_removed = 0 and deduplication_rate = 0.0.
C12_EmptyAndSingle ==
    ( /\ dedup.outcome # "none"
      /\ dedup.impl = "Deduplicator"
      /\ Len(questions) <= 1 )
    => /\ dedup.outcome = "returned"
       /\ dedup.unique_questions = questions
       /\ dedup.duplicates = <<>>
       /\ {"total_original_questions", "total_unique_questions",
           "total_duplicates_removed", "deduplication_rate"} \subseteq DOMAIN dedup.stats
       /\ dedup.stats.total_original_questions = Len(questions)
       /\ dedup.stats.total_unique_questions = Len(questions)
       /\ dedup.stats.total_duplicates_removed = 0
       /\ dedup.stats.deduplication_rate[1] = 0

\* C17 (malformed questions): Deduplicator.deduplicate_questions on a list of two or
\* more question records that lack question_id, question_text or other keys does not
\* raise and returns statistics with total_original_questions = len(input).
C17_MalformedHandled ==
    ( /\ dedup.outcome # "none"
      /\ dedup.impl = "Deduplicator"
      /\ Len(questions) >= 2
      /\ \E i \in DOMAIN questions :
            questions[i].absent \cap {"question_id", "question_text", "question_type",
                                      "answer", "subtopic"} # {} )
    => /\ dedup.outcome = "returned"
       /\ dedup.stats.total_original_questions = Len(questions)

\* the input positions recorded as duplicates of the question at position rep
RecordedDuplicatesOf(result, rep) ==
    {k \in DOMAIN result.pairs : result.pairs[k].rep = rep}

\* C25 (duplicate_count annotation): after deduplicate_questions every unique question
\* carries a duplicate_count equal to the number of input questions recorded as its
\* duplicates, so the counts of unique_questions add up to the number of duplicates
\* removed.
C25_DuplicateCountAnnotation ==
    dedup.outcome = "returned" =>
        /\ \A k \in DOMAIN dedup.unique_questions :
              /\ "duplicate_count" \notin dedup.unique_questions[k].absent
              /\ dedup.unique_questions[k].duplicate_count =
                     Cardinality(RecordedDuplicatesOf(dedup, dedup.unique_idx[k]))
        /\ SumSeq([k \in DOMAIN dedup.unique_questions |->
                      Get(dedup.unique_questions[k], "duplicate_count", 0)])
               = Len(dedup.pairs)

\* C27 (no duplicate chains): in the result of Deduplicator.deduplicate_questions no
\* question recorded as a duplicate is the representative of another duplicate, and
\* every duplicate_of is the question_id of a question of unique_questions that comes
\* before the duplicate in the input and directly passed the duplicate test with it.
C27_NoDuplicateChains ==
    (dedup.outcome = "returned" /\ dedup.impl = "Deduplicator") =>
        \A k \in DOMAIN dedup.duplicates :
            /\ dedup.pairs[k].rep \notin DuplicatePositions(dedup)
            /\ \E u \in DOMAIN dedup.unique_questions :
                  /\ dedup.unique_questions[u].question_id = dedup.duplicates[k].duplicate_of
                  /\ dedup.unique_idx[u] < dedup.pairs[k].idx
                  /\ PassesDuplicateTest(dedup, questions, dedup.unique_idx[u],
                                         dedup.pairs[k].idx)

(***************************************************************************)
(* The duplicate decision on one pair of questions                         *)
(***************************************************************************)
TextE == join(<<w_ml, w_dl, w_nn>>)
TextF == join(<<w_is, w_ml>>)

\* normalized_topic as the generators leave it (no key) and as the mapper sets it
TopicForms ==
    {[name |-> <<>>, present |-> {}],
     [name |-> General, present |-> {"normalized_topic"}],
     [name |-> w_ml, present |-> {"normalized_topic"}]}

WithTopic(question, topic) ==
    [question EXCEPT !.normalized_topic = topic.name, !.absent = @ \ topic.present]

\* the second question of the pair: against TextA, TextB shares two keywords, TextF one
\* (Jaccard 2/3 both), TextE one (Jaccard 1/5); its subtopic is the first one's, another
\* one, the first one's in upper case, or a part of it
DecisionPool ==
    {WithTopic(NewQuestion(2, text, qtype, answer, subtopic), topic) :
        text \in {TextB, TextE, TextF}, qtype \in {"short_answer", "mcq"},
        answer \in {"", "a1", "a2"},
        subtopic \in {w_ml, w_dl, <<"M", "L">>, <<"m">>},
        topic \in TopicForms}

DecisionInputs ==
    {<<WithTopic(NewQuestion(1, TextA, "short_answer", "a1", w_ml), topic), q>> :
        topic \in {t \in TopicForms : t.name # w_ml}, q \in DecisionPool}

InitDecision ==
    /\ similarity_threshold = SIMILARITY_THRESHOLD
    /\ questions \in DecisionInputs
    /\ embedding_sim \in [{{TextA, TextB}, {TextA, TextE}, {TextA, TextF}} -> {80, 85}]
    /\ answer_sim \in [AnswerPairs -> {20, 40, 60}]
    /\ dedup = NoResult
    /\ previous = NoResult
    /\ SelectIdle /\ NormIdle /\ MapIdle /\ PipelineIdle

NextDecision == Deduplicate \/ AgentDeduplicate

SpecDecision == InitDecision /\ [][NextDecision]_vars

\* the same-concept check of the detector behind `result`
SameConceptOf(result, question1, question2) ==
    IF result.impl = "Deduplicator" THEN _check_same_concept(question1, question2)
    ELSE agent_check_same_concept(question1, question2)

\* the embedding similarity the detector behind `result` had for questions i and j
EmbeddingSimilarityOf(result, qs, i, j) ==
    IF result.impl = "Deduplicator"
    THEN SimilarityMatrix(qs, _generate_embeddings(~result.embed_failed), i, j)
    ELSE CosineOfTexts(Get(qs[i], "question_text", EmptyText),
                       Get(qs[j], "question_text", EmptyText))

\* C18 (duplicate decision rule): the second question of a pair is marked a duplicate
\* of the first exactly when their embedding similarity is >= the threshold, they have
\* the same question type, their answers (if both non-empty) have lexical similarity
\* >= 0.3, and the same-concept check passes; nothing else changes the decision.
C18_DecisionRule ==
    (dedup.outcome = "returned" /\ Len(questions) = 2) =>
        LET answer1 == Get(questions[1], "answer", "")
            answer2 == Get(questions[2], "answer", "")
        IN (2 \in DuplicatePositions(dedup))
           <=> /\ EmbeddingSimilarityOf(dedup, questions, 1, 2) >= similarity_threshold
               /\ Get(questions[1], "question_type", "None")
                      = Get(questions[2], "question_type", "None")
               /\ (answer1 # "" /\ answer2 # "")
                      => calculate_similarity(answer1, answer2) >= 30
               /\ SameConceptOf(dedup, questions[1], questions[2])

\* the words of a question text that are keywords: lower-cased, split at white space,
\* not in the stopword list
Keywords(question) ==
    Range(split(lower(Get(question, "question_text", EmptyText)))) \ common_words

\* both questions have a non-empty value under `key`, equal up to case
SameNonEmpty(question1, question2, key) ==
    /\ Get(question1, key, <<>>) # <<>>
    /\ Get(question2, key, <<>>) # <<>>
    /\ lower(Get(question1, key, <<>>)) = lower(Get(question2, key, <<>>))

TextD == join(<<w_what, w_ml, w_nn>>)

\* four questions on one subtopic with the same type and answer and texts whose
\* pairwise Jaccard similarity is at least 0.3: whether two of them are duplicates
\* is decided by the embedding similarity alone
ThresholdTexts == <<TextA, TextB, TextC, TextD>>

ThresholdQuestions ==
    [i \in DOMAIN ThresholdTexts |->
        NewQuestion(i, ThresholdTexts[i], "short_answer", "a1", w_ml)]

ThresholdInputs == {SubSeq(ThresholdQuestions, 1, n) : n \in 2..Len(ThresholdQuestions)}

ThresholdPairs ==
    {{ThresholdTexts[i], ThresholdTexts[j]} : i, j \in DOMAIN ThresholdTexts} \
        {{ThresholdTexts[i]} : i \in DOMAIN ThresholdTexts}

\* the thresholds the two Deduplicators are built with
ThresholdLevels == {70, 90}

\* determinant of the rows and columns `rows`, `cols` of matrix M, along the first row
RECURSIVE Det(_, _, _)
Det(M, rows, cols) ==
    IF rows = <<>> THEN 1
    ELSE SumSeq([k \in DOMAIN cols |->
                    (IF k % 2 = 1 THEN 1 ELSE -1) * M[Head(rows)][cols[k]]
                        * Det(M, Tail(rows),
                              SubSeq(cols, 1, k - 1) \o SubSeq(cols, k + 1, Len(cols)))])

\* cosine_similarity(embeddings) is the Gram matrix of the normalised embeddings:
\* symmetric, 1.0 on the diagonal, and positive semi-definite (every principal minor
\* is >= 0); entries in twentieths
IsCosineMatrix(sim, texts) ==
    LET M == [i \in DOMAIN texts |-> [j \in DOMAIN texts |->
                 IF texts[i] = texts[j] THEN 20 ELSE sim[{texts[i], texts[j]}] \div 5]]
    IN \A S \in SUBSET DOMAIN texts : Det(M, Ascending(S), Ascending(S)) >= 0

InitThreshold ==
    /\ similarity_threshold \in ThresholdLevels
    /\ questions \in ThresholdInputs
    /\ embedding_sim \in {sim \in [ThresholdPairs -> {65, 75, 90}] :
                             IsCosineMatrix(sim, ThresholdTexts)}
    /\ answer_sim \in [AnswerPairs -> {40}]
    /\ dedup = NoResult
    /\ previous = NoResult
    /\ SelectIdle /\ NormIdle /\ MapIdle /\ PipelineIdle

\* Deduplicator(similarity_threshold = t): a second detector with another threshold,
\* to be run on the same questions
Retune ==
    /\ dedup.outcome = "returned"
    /\ previous = NoResult
    /\ \E t \in ThresholdLevels \ {similarity_threshold} : similarity_threshold' = t
    /\ previous' = [outcome |-> "compared", impl |-> dedup.impl,
                    embed_failed |-> dedup.embed_failed,
                    threshold |-> similarity_threshold,
                    unique |-> Len(dedup.unique_questions)]
    /\ dedup' = NoResult
    /\ UNCHANGED <<pipelineVars, questions, embedding_sim, answer_sim, selectVars, normVars, mapVars>>

NextThreshold == Deduplicate \/ Retune

SpecThreshold == InitThreshold /\ [][NextThreshold]_vars

\* C13 (threshold monotonicity): for the same questions and the same pairwise
\* similarities, a Deduplicator with a lower similarity_threshold never returns more
\* unique questions than one with a higher threshold.
C13_ThresholdMonotone ==
    ( /\ previous.outcome = "compared"
      /\ dedup.outcome = "returned"
      /\ dedup.embed_failed = previous.embed_failed )
    => /\ similarity_threshold < previous.threshold
              => Len(dedup.unique_questions) <= previous.unique
       /\ similarity_threshold > previous.threshold
              => Len(dedup.unique_questions) >= previous.unique

(***************************************************************************)
(* core/deduplication.py and agents/dedup_agent.py: the diversity selector *)
(* (_select_diverse_questions and _calculate_question_score are the same   *)
(* text in both classes)                                                   *)
(***************************************************************************)
\* _calculate_question_score, in thousandths; the scores are hundredths
_calculate_question_score(question) ==
    LET validation_score == Get(question, "validation_score", 50)
        confidence == Get(question, "confidence_score", 50)
        word_count == Len(split(Get(question, "question_text", EmptyText)))
        length_bonus == IF 10 <= word_count /\ word_count <= 25 THEN 200
                        ELSE IF (5 <= word_count /\ word_count < 10)
                                \/ (25 < word_count /\ word_count <= 40) THEN 100
                        ELSE 0
        type_bonus == IF Get(question, "question_type", "") = "short_answer" THEN 100 ELSE 0
    IN Min2(1000, validation_score * 4 + confidence * 3 + length_bonus + type_bonus)

\* positions by ascending score
RECURSIVE SortByScoreAscending(_, _)
SortByScoreAscending(scores, left) ==
    IF left = {} THEN <<>>
    ELSE LET worst == CHOOSE i \in left :
                 \A j \in left : scores[i] < scores[j] \/ (scores[i] = scores[j] /\ i <= j)
         IN <<worst>> \o SortByScoreAscending(scores, left \ {worst})

\* scored_questions.sort(key=score, reverse=True): positions by descending score,
\* equal scores in input order (list.sort is stable)
RECURSIVE SortByScore(_, _)
SortByScore(scores, left) ==
    IF left = {} THEN <<>>
    ELSE LET best == CHOOSE i \in left :
                 \A j \in left : scores[i] > scores[j] \/ (scores[i] = scores[j] /\ i <= j)
         IN <<best>> \o SortByScore(scores, left \ {best})

\* a guard that also rejects at exactly 0.7
TooSimilarAtOrAbove(similarity) == similarity >= 70

\* the diversity check of one candidate against the questions already selected
TooSimilar(similarity) == similarity > 70

is_diverse(qs, candidate, selected) ==
    \A k \in DOMAIN selected :
        ~TooSimilar(CosineOfTexts(Get(qs[candidate], "question_text", EmptyText),
                                  Get(qs[selected[k]], "question_text", EmptyText)))

\* the greedy loop over scored_questions: the positions selected
RECURSIVE GreedyFrom(_, _, _, _, _)
GreedyFrom(qs, order, n, selected, cap) ==
    IF n > Len(order) \/ Len(selected) >= cap THEN selected
    ELSE GreedyFrom(qs, order, n + 1,
                    IF is_diverse(qs, order[n], selected)
                    THEN Append(selected, order[n]) ELSE selected,
                    cap)

\* every scored question again, selected or not
RemainingUnfiltered(qs, order, selected) == order

\* remaining = [q for _, q in scored_questions if q not in selected]: `not in`
\* compares the dicts by value
RemainingByValue(qs, order, selected) ==
    LET chosen == {qs[selected[k]] : k \in DOMAIN selected}
    IN FilterSeq(order, {i \in DOMAIN qs : qs[i] \notin chosen})


\* _select_diverse_questions: positions (in the group) of the questions returned, in
\* the order returned, with the scores, the score order and the picks of the greedy
\* loop; or the exception of embedding_model.embed
_select_diverse_questions(qs, cap, embed_ok) ==
    IF Len(qs) <= cap
    THEN [outcome |-> "returned", selected_idx |-> Ascending(DOMAIN qs), selected |-> qs,
          greedy |-> <<>>, scores |-> <<>>, order |-> <<>>]
    ELSE IF cap >= 1 /\ ~embed_ok
    THEN [outcome |-> "raised", exception |-> "embed"]
    ELSE LET scores == [i \in DOMAIN qs |-> _calculate_question_score(qs[i])]
             order == SortByScore(scores, DOMAIN qs)
             greedy == GreedyFrom(qs, order, 1, <<>>, cap)
             remaining == RemainingByValue(qs, order, greedy)
             filled == IF Len(greedy) < cap
                       THEN greedy \o SubSeq(remaining, 1, Min2(Len(remaining), cap - Len(greedy)))
                       ELSE greedy
         IN [outcome |-> "returned", selected_idx |-> filled,
             selected |-> [k \in DOMAIN filled |-> qs[filled[k]]],
             greedy |-> greedy, scores |-> scores, order |-> order]

MaxGroup == 3
MaxCount == 2

SelectPool ==
    {[NewQuestion(id, text, "mcq", "a1", w_ml) EXCEPT
          !.validation_score = v, !.absent = @ \ {"validation_score"}] :
        id \in 1..2, text \in {TextA, TextB}, v \in {50, 80}}

SelectInputs == UNION {[1..n -> SelectPool] : n \in 0..MaxGroup}

DedupIdle ==
    /\ similarity_threshold = SIMILARITY_THRESHOLD
    /\ questions = <<>> /\ answer_sim = <<>> /\ dedup = NoResult /\ previous = NoResult

InitSelect ==
    /\ group \in SelectInputs
    /\ max_count \in 0..MaxCount
    /\ embedding_sim \in [{{TextA, TextB}} -> {70, 71}]
    /\ selection = NoResult
    /\ DedupIdle /\ NormIdle /\ MapIdle /\ PipelineIdle

\* _select_diverse_questions(group, max_count)
SelectDiverse ==
    /\ selection = NoResult
    /\ \E embed_ok \in BOOLEAN :
          selection' = _select_diverse_questions(group, max_count, embed_ok)
    /\ UNCHANGED <<pipelineVars, group, max_count, dedupVars, normVars, mapVars>>

NextSelect == SelectDiverse

SpecSelect == InitSelect /\ [][NextSelect]_vars

\* C3 (diversity cap): the selector returns exactly min(len(group), max_count)
\* questions.
C3_DiversityCap ==
    selection.outcome = "returned" =>
        Len(selection.selected) = Min2(Len(group), max_count)

\* C16 (best item always selected): whenever len(group) > max_count >= 1, the list
\* _select_diverse_questions returns holds a question with the maximum composite score
\* of the group: its first element is the first question in descending score order.
C16_BestItemSelected ==
    ( /\ selection.outcome = "returned"
      /\ Len(group) > max_count
      /\ max_count >= 1 )
    => /\ Len(selection.selected) >= 1
       /\ selection.selected[1] = group[selection.selected_idx[1]]
       /\ \A i \in DOMAIN group :
              selection.scores[selection.selected_idx[1]] >= selection.scores[i]
       /\ \A i \in 1..(selection.selected_idx[1] - 1) :
              selection.scores[i] < selection.scores[selection.selected_idx[1]]

\* the best question is the last of the group and the only one returned
C16_Witness ==
    /\ selection.outcome = "returned"
    /\ Len(group) = 3
    /\ max_count = 1
    /\ selection.selected_idx = <<3>>
    /\ \A i \in 1..2 : selection.scores[i] < selection.scores[3]

\* the embedding similarity of two questions of the group
GroupSimilarity(i, j) ==
    CosineOfTexts(Get(group[i], "question_text", EmptyText),
                  Get(group[j], "question_text", EmptyText))

\* the place of each question of the group in the order the greedy loop went through
ScoreRank ==
    [i \in DOMAIN group |-> CHOOSE n \in DOMAIN selection.order : selection.order[n] = i]

\* C20 as stated (diversity guard): a candidate is accepted in the greedy pass only if
\* its embedding similarity to every already-selected question is strictly less than
\* 0.7; at exactly 0.7 it is not accepted.
C20_GuardStrictlyBelow ==
    (selection.outcome = "returned" /\ Len(group) > max_count) =>
        \A a, b \in DOMAIN selection.greedy :
            a < b => GroupSimilarity(selection.greedy[a], selection.greedy[b]) < 70

\* C20 as the code has it: a candidate is accepted in the greedy pass if and only if
\* fewer than max_count questions are selected so far and its embedding similarity to
\* every one of them is at most 0.7; at exactly 0.7 it is accepted.
C20_GuardAtMost ==
    (selection.outcome = "returned" /\ Len(group) > max_count) =>
        LET greedy == selection.greedy
            rank == ScoreRank
            before(i) == {g \in Range(greedy) : rank[g] < rank[i]}
        IN /\ Len(greedy) <= max_count
           /\ \A n \in 1..(Len(selection.order) - 1) :
                 selection.scores[selection.order[n]] >= selection.scores[selection.order[n + 1]]
           /\ \A a, b \in DOMAIN greedy :
                 a < b => /\ rank[greedy[a]] < rank[greedy[b]]
                          /\ GroupSimilarity(greedy[a], greedy[b]) <= 70
           /\ \A i \in DOMAIN group \ Range(greedy) :
                 \/ Cardinality(before(i)) >= max_count
                 \/ \E g \in before(i) : GroupSimilarity(i, g) > 70

\* a candidate at similarity exactly 0.7 to a selected question, accepted by the
\* greedy pass
C20_Witness ==
    /\ selection.outcome = "returned"
    /\ Len(group) > max_count
    /\ \E a, b \in DOMAIN selection.greedy :
          a < b /\ GroupSimilarity(selection.greedy[a], selection.greedy[b]) = 70

\* how many times a question occurs in a list
Occurrences(list, question) == Cardinality({i \in DOMAIN list : list[i] = question})

\* C28 (selection is a sub-multiset of the group): every question that
\* _select_diverse_questions returns is a question of the group, taken from a position
\* of its own, so no question is returned more often than the group holds it, in the
\* greedy pass and after the fill step.
C28_SelectionSubMultiset ==
    selection.outcome = "returned" =>
        /\ \A k \in DOMAIN selection.selected :
              /\ selection.selected_idx[k] \in DOMAIN group
              /\ selection.selected[k] = group[selection.selected_idx[k]]
              /\ Occurrences(selection.selected, selection.selected[k])
                     <= Occurrences(group, selection.selected[k])
        /\ \A k, l \in DOMAIN selection.selected_idx :
              k # l => selection.selected_idx[k] # selection.selected_idx[l]
        /\ \A k, l \in DOMAIN selection.greedy :
              k # l => selection.greedy[k] # selection.greedy[l]

\* the greedy pass picked a question and the fill step added another
C28_Witness ==
    /\ selection.outcome = "returned"
    /\ Len(selection.greedy) >= 1
    /\ Len(selection.selected_idx) > Len(selection.greedy)

(***************************************************************************)
(* core/topic_normalization.py: TopicNormalizer                            *)
(*                                                                         *)
(* An element of the raw subtopic list is [isstr, chars]: whether it is a  *)
(* str, and its characters.  A dict whose key order the code relies on     *)
(* (topic_mapping) is the sequence of its [key, value] items in insertion  *)
(* order.  topic_id f"topic_{i:03d}" is the number i.  A mean is the pair   *)
(* <<sum, count>>.                                                         *)
(***************************************************************************)
Digit(i) == <<"1", "2", "3", "4", "5", "6", "7", "8", "9">>[i]

RECURSIVE lstrip(_)
lstrip(s) == IF s # <<>> /\ IsSpace(Head(s)) THEN lstrip(Tail(s)) ELSE s

RECURSIVE rstrip(_)
rstrip(s) == IF s # <<>> /\ IsSpace(s[Len(s)]) THEN rstrip(SubSeq(s, 1, Len(s) - 1)) ELSE s

\* str.strip()
strip(s) == rstrip(lstrip(s))

\* list(d.keys()), key in d, d.get(key, default), d[key] = value
Keys(d) == [i \in DOMAIN d |-> d[i].key]

HasKey(d, key) == \E i \in DOMAIN d : d[i].key = key

DictGet(d, key, default) ==
    IF HasKey(d, key) THEN d[CHOOSE i \in DOMAIN d : d[i].key = key].value ELSE default

DictSet(d, key, value) ==
    IF HasKey(d, key)
    THEN [i \in DOMAIN d |-> IF d[i].key = key THEN [key |-> key, value |-> value] ELSE d[i]]
    ELSE Append(d, [key |-> key, value |-> value])

\* [s[i] for i in positions], positions ascending
ListAt(s, positions) ==
    LET at == Ascending(positions) IN [m \in DOMAIN at |-> s[at[m]]]

RECURSIVE CleanFrom(_, _, _, _)
CleanFrom(subs, i, cleaned, seen) ==
    IF i > Len(subs) THEN cleaned
    ELSE IF ~subs[i].isstr THEN CleanFrom(subs, i + 1, cleaned, seen)
    ELSE LET st == join(split(strip(subs[i].chars)))
         IN IF st # <<>> /\ Len(st) >= 2 /\ Len(st) <= 100 /\ lower(st) \notin seen
            THEN CleanFrom(subs, i + 1, Append(cleaned, st), seen \cup {lower(st)})
            ELSE CleanFrom(subs, i + 1, cleaned, seen)

_clean_subtopics(subs) == CleanFrom(subs, 1, <<>>, {})

\* one entry of normalized_topics
TopicData(topic_id, topic_name, subs, representative, statistics) ==
    [topic_id |-> topic_id, topic_name |-> topic_name, subtopics |-> subs,
     subtopic_count |-> Len(subs), representative_subtopic |-> representative,
     cluster_id |-> 0, statistics |-> statistics, absent |-> {"cluster_id"}]

ClusterStatistics(count, average_word_count, min_length, max_length, cohesion) ==
    [subtopic_count |-> count, average_word_count |-> average_word_count,
     min_length |-> min_length, max_length |-> max_length, cohesion_score |-> cohesion,
     absent |-> {}]

\* the "statistics" of a result that reports no distribution figures
PlainStatistics(total_subtopics, total_topics, coverage, quality) ==
    [total_original_subtopics |-> total_subtopics, total_normalized_topics |-> total_topics,
     coverage_percentage |-> coverage, average_subtopics_per_topic |-> <<0, 1>>,
     subtopic_distribution_std |-> 0, balance_score |-> 0, average_cohesion_score |-> 0,
     normalization_quality |-> quality,
     absent |-> {"average_subtopics_per_topic", "subtopic_distribution_std",
                 "balance_score", "average_cohesion_score"}]

\* the record normalize_topics returns; `recovered` (not in the code) names the
\* failures the run recovered from
NormalizationResult(normalized_topics, mapping, original, statistics, recovered) ==
    [outcome |-> "returned", normalized_topics |-> normalized_topics,
     topic_mapping |-> mapping, original_subtopics |-> original, statistics |-> statistics,
     clustering_method |-> "", normalization_method |-> "",
     absent |-> {"clustering_method", "normalization_method"}, recovered |-> recovered]

_create_empty_normalization ==
    NormalizationResult(<<>>, <<>>, <<>>, PlainStatistics(0, 0, 0, "No Data"), {})

_create_simple_normalization(subs, recovered) ==
    LET normalized_topics ==
            [i \in DOMAIN subs |->
                TopicData(i, subs[i], <<subs[i]>>, subs[i],
                          [ClusterStatistics(1, <<Len(split(subs[i])), 1>>, 0, 0, 100)
                               EXCEPT !.absent = {"min_length", "max_length"}])]
        mapping == [i \in DOMAIN subs |-> [key |-> subs[i], value |-> subs[i]]]
    IN NormalizationResult(normalized_topics, mapping, subs,
           [PlainStatistics(Len(subs), Len(subs), 100, "Perfect (1:1 mapping)")
                EXCEPT !.average_subtopics_per_topic = <<1, 1>>,
                       !.absent = @ \ {"average_subtopics_per_topic"}],
           recovered)

\* one pass of the silhouette loop and those after it; evals[k] is what
\* KMeans(n_clusters=k) and silhouette_score did for k
RECURSIVE SilhouetteSearch(_, _, _, _, _)
SilhouetteSearch(k, max_clusters, evals, best_score, best_k) ==
    IF k > max_clusters THEN best_k
    ELSE LET score == IF k > 1 THEN evals[k].score ELSE 0
         IN IF evals[k].ok /\ score > best_score
            THEN SilhouetteSearch(k + 1, max_clusters, evals, score, k)
            ELSE SilhouetteSearch(k + 1, max_clusters, evals, best_score, best_k)

\* min_clusters fixed at 3 whatever the number of subtopics
OptimalClustersWithFixedMinimum(n, target, evals) ==
    LET max_clusters == Min2(target * 2, n - 1)
        min_clusters == 3
    IN IF max_clusters <= min_clusters THEN min_clusters
       ELSE SilhouetteSearch(min_clusters, max_clusters, evals, -100, target)

_determine_optimal_clusters(n, target, evals) ==
    LET max_clusters == Min2(target * 2, n - 1)
        min_clusters == Min2(3, n)
    IN IF max_clusters <= min_clusters THEN min_clusters
       ELSE SilhouetteSearch(min_clusters, max_clusters, evals, -100, target)

\* what one evaluation of a candidate k can do: raise, or a silhouette in [-1, 1]
EvalOutcomes ==
    {[ok |-> FALSE, score |-> 0]} \cup {[ok |-> TRUE, score |-> sc] : sc \in {-100, 20, 50}}

Evaluations(n, target) == [Min2(3, n)..Min2(target * 2, n - 1) -> EvalOutcomes]

\* KMeans(n_clusters=k).fit_predict on n points rejects k < 1 and k > n
KMeansRejects(n, k) == k < 1 \/ k > n

\* the label vectors fit_predict can return for n points and k clusters (a cluster
\* can stay empty when embeddings coincide), labels numbered in order of first member
RECURSIVE Labelings(_, _)
Labelings(n, k) ==
    IF n = 0 THEN {<<>>}
    ELSE UNION {{Append(labels, v) : v \in 0..Min2(k - 1, Cardinality(Range(labels)))} :
                   labels \in Labelings(n - 1, k)}

\* _cluster_subtopics: dict(clusters) as the list of its items, in insertion order
RECURSIVE LabelOrder(_, _)
LabelOrder(labels, i) ==
    IF i > Len(labels) THEN <<>>
    ELSE (IF \E j \in 1..(i - 1) : labels[j] = labels[i] THEN <<>> ELSE <<labels[i]>>)
         \o LabelOrder(labels, i + 1)

_cluster_subtopics(subs, labels) ==
    LET order == LabelOrder(labels, 1)
    IN [c \in DOMAIN order |->
           [cluster_id |-> order[c],
            members |-> ListAt(subs, {i \in DOMAIN subs : labels[i] = order[c]})]]

naming_common_words ==
    {<<"t", "h", "e">>, <<"a", "n", "d">>, <<"o", "f">>, <<"i", "n">>, <<"t", "o">>,
     <<"f", "o", "r">>, <<"o", "n">>, <<"w", "i", "t", "h">>, <<"b", "y">>, <<"a", "t">>}

\* str.upper() of one character, on the letters the model's words begin with
UpperChar(c) ==
    CASE c = "t" -> "T"
      [] c = "d" -> "D"
      [] c = "n" -> "N"
      [] c = "m" -> "M"
      [] OTHER -> c

capitalize(word) ==
    IF word = <<>> THEN <<>> ELSE <<UpperChar(Head(word))>> \o lower(Tail(word))

RECURSIVE Flatten(_)
Flatten(lists) == IF lists = <<>> THEN <<>> ELSE Head(lists) \o Flatten(Tail(lists))

\* Counter(words).most_common(): the distinct words by descending count, words of
\* equal count in order of first occurrence
RECURSIVE MostCommonFrom(_, _)
MostCommonFrom(words, left) ==
    IF left = {} THEN <<>>
    ELSE LET count(w) == Cardinality({i \in DOMAIN words : words[i] = w})
             first(w) == CHOOSE i \in DOMAIN words :
                             words[i] = w /\ \A j \in 1..(i - 1) : words[j] # w
             top == CHOOSE w \in left :
                        \A v \in left : count(w) > count(v)
                                        \/ (count(w) = count(v) /\ first(w) <= first(v))
         IN <<top>> \o MostCommonFrom(words, left \ {top})

GeneralTopics == <<"G", "e", "n", "e", "r", "a", "l", " ", "T", "o", "p", "i", "c", "s">>

_generate_fallback_topic_name(subs) ==
    LET filtered(st) == LET words == split(lower(st))
                        IN ListAt(words, {i \in DOMAIN words :
                                             words[i] \notin naming_common_words
                                             /\ Len(words[i]) > 2})
        all_words == Flatten([i \in DOMAIN subs |-> filtered(subs[i])])
        ranked == MostCommonFrom(all_words, Range(all_words))
        top_words == SubSeq(ranked, 1, Min2(3, Len(ranked)))
    IN IF all_words = <<>> THEN GeneralTopics
       ELSE join([i \in DOMAIN top_words |-> capitalize(top_words[i])])

\* str.replace('"', '').replace("'", "")
RECURSIVE RemoveQuotes(_)
RemoveQuotes(s) ==
    IF s = <<>> THEN <<>>
    ELSE (IF Head(s) \in {"\"", "'"} THEN <<>> ELSE <<Head(s)>>) \o RemoveQuotes(Tail(s))

\* _generate_topic_name; reply is what llm_client.generate did: raised, or its text
_generate_topic_name(subs, reply) ==
    IF reply.raises THEN _generate_fallback_topic_name(subs)
    ELSE LET topic_name == strip(RemoveQuotes(strip(reply.text)))
         IN IF topic_name # <<>> /\ Len(split(topic_name)) <= 6 THEN topic_name
            ELSE _generate_fallback_topic_name(subs)

\* _find_representative_subtopic; closest is what the embedding search did: "raises",
\* or which member is nearest the centre
_find_representative_subtopic(cluster_subtopics, closest) ==
    IF cluster_subtopics = <<>> THEN <<>>
    ELSE IF closest = "last" THEN cluster_subtopics[Len(cluster_subtopics)]
    ELSE cluster_subtopics[1]

\* _calculate_cluster_cohesion; pairwise is "raises" or the mean pairwise similarity
_calculate_cluster_cohesion(subs, pairwise) ==
    IF Len(subs) <= 1 THEN 100
    ELSE IF pairwise.raises THEN 50
    ELSE pairwise.similarity

RECURSIVE MinOf(_)
MinOf(s) == IF Len(s) = 1 THEN s[1] ELSE Min2(s[1], MinOf(Tail(s)))

RECURSIVE MaxOf(_)
MaxOf(s) == IF Len(s) = 1 THEN s[1] ELSE (IF s[1] >= MaxOf(Tail(s)) THEN s[1] ELSE MaxOf(Tail(s)))

_calculate_cluster_stats(cluster_subtopics, pairwise) ==
    LET word_counts == [i \in DOMAIN cluster_subtopics |-> Len(split(cluster_subtopics[i]))]
        char_counts == [i \in DOMAIN cluster_subtopics |-> Len(cluster_subtopics[i])]
    IN ClusterStatistics(Len(cluster_subtopics),
                         IF word_counts # <<>> THEN <<SumSeq(word_counts), Len(word_counts)>>
                         ELSE <<0, 1>>,
                         IF char_counts # <<>> THEN MinOf(char_counts) ELSE 0,
                         IF char_counts # <<>> THEN MaxOf(char_counts) ELSE 0,
                         _calculate_cluster_cohesion(cluster_subtopics, pairwise))

\* what the collaborators did during one clustering run: the reply of
\* llm_client.generate for the cluster at a position, the member the embedding search
\* found nearest the centre, and the mean pairwise similarity
NamingModes == {"raises", "blank", "verbose", "quoted", "indexed"}

NamingReply(naming, position) ==
    CASE naming = "raises" -> [raises |-> TRUE, text |-> <<>>]
      [] naming = "blank" -> [raises |-> FALSE, text |-> <<" ">>]
      [] naming = "verbose" ->
            [raises |-> FALSE, text |-> join([i \in 1..7 |-> <<"n", Digit(i)>>])]
      [] naming = "quoted" ->
            [raises |-> FALSE, text |-> <<"\"", "N", "e", "t", "s", "\"">>]
      [] OTHER -> [raises |-> FALSE, text |-> <<"T", Digit(position)>>]

ClosestModes == {"raises", "first", "last"}

PairwiseOutcomes == {[raises |-> TRUE, similarity |-> 0], [raises |-> FALSE, similarity |-> 80]}

\* normalized_topics.sort(key=subtopic_count, reverse=True): stable
RECURSIVE SortByCount(_, _)
SortByCount(topics, left) ==
    IF left = {} THEN <<>>
    ELSE LET next == CHOOSE i \in left :
                 \A j \in left :
                     \/ topics[i].subtopic_count > topics[j].subtopic_count
                     \/ (topics[i].subtopic_count = topics[j].subtopic_count /\ i <= j)
         IN <<topics[next]>> \o SortByCount(topics, left \ {next})

_create_normalized_topics(clusters, naming, closest, pairwise) ==
    LET filled == ListAt(clusters, {c \in DOMAIN clusters : clusters[c].members # <<>>})
        topic_data(c) ==
            [TopicData(filled[c].cluster_id + 1,
                       _generate_topic_name(filled[c].members, NamingReply(naming, c)),
                       filled[c].members,
                       _find_representative_subtopic(filled[c].members, closest),
                       _calculate_cluster_stats(filled[c].members, pairwise))
                EXCEPT !.cluster_id = filled[c].cluster_id, !.absent = {}]
        normalized_topics == [c \in DOMAIN filled |-> topic_data(c)]
    IN SortByCount(normalized_topics, DOMAIN normalized_topics)

RECURSIVE MapSubtopics(_, _, _)
MapSubtopics(mapping, subs, topic_name) ==
    IF subs = <<>> THEN mapping
    ELSE MapSubtopics(DictSet(mapping, Head(subs), topic_name), Tail(subs), topic_name)

RECURSIVE MapTopics(_, _)
MapTopics(mapping, topics) ==
    IF topics = <<>> THEN mapping
    ELSE MapTopics(MapSubtopics(mapping, Head(topics).subtopics, Head(topics).topic_name),
                   Tail(topics))

_create_topic_mapping(normalized_topics) == MapTopics(<<>>, normalized_topics)

\* floor of the square root
RECURSIVE SqrtBetween(_, _, _)
SqrtBetween(x, lo, hi) ==
    IF lo = hi THEN lo
    ELSE LET mid == (lo + hi + 1) \div 2
         IN IF mid * mid <= x THEN SqrtBetween(x, mid, hi) ELSE SqrtBetween(x, lo, mid - 1)

ISqrt(x) == SqrtBetween(x, 0, Min2(x, 40000))

\* coverage, balance and cohesion in hundredths
_assess_normalization_quality(coverage, balance, cohesion) ==
    LET quality_score == coverage * 40 + balance * 30 + cohesion * 30
    IN IF quality_score >= 8000 THEN "Excellent"
       ELSE IF quality_score >= 7000 THEN "Good"
       ELSE IF quality_score >= 6000 THEN "Fair"
       ELSE "Needs Improvement"

\* _calculate_normalization_stats; std / avg is sqrt(sum((m * c - S)^2) / m) / S for
\* the m counts c of sum S
_calculate_normalization_stats(normalized_topics, original_subtopics) ==
    LET total_subtopics == Len(original_subtopics)
        total_topics == Len(normalized_topics)
        mapped_subtopics == UNION {Range(normalized_topics[t].subtopics) :
                                      t \in DOMAIN normalized_topics}
        coverage == IF total_subtopics > 0
                    THEN (Cardinality(mapped_subtopics) * 100) \div total_subtopics ELSE 0
        subtopic_counts == [t \in DOMAIN normalized_topics |->
                               normalized_topics[t].subtopic_count]
        S == SumSeq(subtopic_counts)
        deviations == [t \in DOMAIN subtopic_counts |->
                          (total_topics * subtopic_counts[t] - S)
                          * (total_topics * subtopic_counts[t] - S)]
        spread == IF total_topics > 0 THEN ISqrt((10000 * SumSeq(deviations)) \div total_topics)
                  ELSE 0
        balance_score == IF S > 0 THEN (10000 * S) \div (100 * S + spread) ELSE 0
        cohesion_scores == [t \in DOMAIN normalized_topics |->
                               normalized_topics[t].statistics.cohesion_score]
        avg_cohesion == IF total_topics > 0 THEN SumSeq(cohesion_scores) \div total_topics ELSE 0
    IN [total_original_subtopics |-> total_subtopics,
        total_normalized_topics |-> total_topics,
        coverage_percentage |-> coverage,
        average_subtopics_per_topic |-> IF total_topics > 0 THEN <<S, total_topics>> ELSE <<0, 1>>,
        subtopic_distribution_std |-> IF total_topics > 0 THEN spread \div total_topics ELSE 0,
        balance_score |-> balance_score,
        average_cohesion_score |-> avg_cohesion,
        normalization_quality |-> _assess_normalization_quality(coverage, balance_score, avg_cohesion),
        absent |-> {}]

\* what llm_client.generate_json did: raised, or the JSON object it parsed; an entry
\* of its "normalized_topics" is [isdict, topic_name, subtopics, absent]
TopicEntry(topic_name, subs) ==
    [isdict |-> TRUE, topic_name |-> topic_name, subtopics |-> subs, absent |-> {}]

JsonObject(entries, mapping) ==
    [raises |-> FALSE, normalized_topics |-> entries, topic_mapping |-> mapping, absent |-> {}]

\* the object that groups the subtopics as `groups` under the names T1, T2, ...
Grouped(groups) ==
    LET entries == [g \in DOMAIN groups |-> TopicEntry(<<"T", Digit(g)>>, groups[g])]
    IN JsonObject(entries, MapTopics(<<>>, entries))

TopicN(i) == <<"T", "o", "p", "i", "c", " ", Digit(i)>>

LLMResponses(subs) ==
    LET first == IF subs = <<>> THEN <<>> ELSE <<Head(subs)>>
        rest == IF subs = <<>> THEN <<>> ELSE Tail(subs)
    IN {[JsonObject(<<>>, <<>>) EXCEPT !.raises = TRUE],
        [JsonObject(<<>>, <<>>) EXCEPT !.absent = {"normalized_topics", "topic_mapping"}],
        Grouped(<<subs>>),
        Grouped(IF rest = <<>> THEN <<first>> ELSE <<first, rest>>),
        Grouped(<<first>>),
        Grouped(<<subs, first>>),
        Grouped(<<subs, <<>>>>),
        JsonObject(<<[TopicEntry(<<>>, <<>>) EXCEPT !.absent = {"topic_name", "subtopics"}]>>,
                   <<>>),
        JsonObject(<<[TopicEntry(<<>>, <<>>) EXCEPT !.isdict = FALSE]>>, <<>>)}

_normalize_with_llm_fallback(subs, response, recovered) ==
    LET listed == IF "normalized_topics" \in response.absent THEN <<>>
                  ELSE response.normalized_topics
        dicts == {i \in DOMAIN listed : listed[i].isdict}
        \* topic.get("subtopics", [""])[0] on an empty list
        index_error == \E i \in dicts :
                           "subtopics" \notin listed[i].absent /\ listed[i].subtopics = <<>>
        topic_data(i) ==
            TopicData(i, Get(listed[i], "topic_name", TopicN(i)),
                      Get(listed[i], "subtopics", <<>>),
                      Get(listed[i], "subtopics", <<<<>>>>)[1],
                      [ClusterStatistics(Len(Get(listed[i], "subtopics", <<>>)), <<0, 1>>,
                                         0, 0, 70)
                          EXCEPT !.absent = {"min_length", "max_length"}])
        normalized_topics == [m \in DOMAIN Ascending(dicts) |-> topic_data(Ascending(dicts)[m])]
    IN IF response.raises \/ index_error
       THEN _create_simple_normalization(subs, recovered \cup {"llm"})
       ELSE [NormalizationResult(normalized_topics, Get(response, "topic_mapping", <<>>), subs,
                                 PlainStatistics(Len(subs), Len(normalized_topics), 100,
                                                 "LLM-based"),
                                 recovered)
                EXCEPT !.normalization_method = "llm_fallback",
                       !.absent = {"clustering_method"}]

PropagateClusteringFailure(subs, failure) == {[outcome |-> "raised", exception |-> failure]}

\* the except branch of normalize_topics: the results it can return after `failure`
RecoverFromClusteringFailure(subs, failure) ==
    {_normalize_with_llm_fallback(subs, response, {failure}) : response \in LLMResponses(subs)}

FewerThanTarget(n, target) == n < target

\* the test that sends normalize_topics down the 1:1 path
TooFewToCluster(n, target) == n <= target

\* the try block of normalize_topics when nothing raises, for one choice of what the
\* collaborators did
ClusteringResult(subs, labels, naming, closest, pairwise) ==
    LET clusters == _cluster_subtopics(subs, labels)
        normalized_topics == _create_normalized_topics(clusters, naming, closest, pairwise)
        degraded == (IF naming \in {"raises", "blank", "verbose"} THEN {"naming"} ELSE {})
                    \cup (IF closest = "raises" THEN {"representative"} ELSE {})
                    \cup (IF pairwise.raises
                             /\ \E c \in DOMAIN normalized_topics :
                                   normalized_topics[c].subtopic_count > 1
                          THEN {"cohesion"} ELSE {})
    IN [NormalizationResult(normalized_topics, _create_topic_mapping(normalized_topics), subs,
                            _calculate_normalization_stats(normalized_topics, subs), degraded)
           EXCEPT !.clustering_method = "kmeans",
                  !.normalization_method = "embedding_clustering",
                  !.absent = {}]

\* the cluster counts _determine_optimal_clusters can return
OptimalClusters(n, target) ==
    IF Min2(target * 2, n - 1) <= Min2(3, n)
    THEN {_determine_optimal_clusters(n, target, <<>>)}
    ELSE {_determine_optimal_clusters(n, target, evals) : evals \in Evaluations(n, target)}

\* normalize_topics(subtopics): the results it can return, over what embed_batch,
\* KMeans, silhouette_score and the LLM can do
normalize_topics(subs, target) ==
    IF subs = <<>> THEN {_create_empty_normalization}
    ELSE LET cleaned_subtopics == _clean_subtopics(subs)
             n == Len(cleaned_subtopics)
         IN IF TooFewToCluster(n, target)
            THEN {_create_simple_normalization(cleaned_subtopics, {})}
            ELSE RecoverFromClusteringFailure(cleaned_subtopics, "embedding")
                 \cup RecoverFromClusteringFailure(cleaned_subtopics, "kmeans")
                 \cup UNION {IF KMeansRejects(n, optimal_clusters) THEN {}
                             ELSE {ClusteringResult(cleaned_subtopics, labels, naming,
                                                    closest, pairwise) :
                                      labels \in Labelings(n, optimal_clusters),
                                      naming \in NamingModes,
                                      closest \in ClosestModes,
                                      pairwise \in PairwiseOutcomes} :
                                optimal_clusters \in OptimalClusters(n, target)}

MaxRaw == 2
MaxClean == 5
MaxTarget == 2

Str(chars) == [isstr |-> TRUE, chars |-> chars]

NotAStr == [isstr |-> FALSE, chars |-> <<>>]

Filler(n) == [i \in 1..n |-> "x"]

RawPool ==
    {Str(w_ml), Str(<<" ", "M", "L", " ">>), Str(w_dl),
     Str(<<"d", "e", "e", "p", " ", " ", "n", "e", "t", "s">>),
     Str(<<"x">>), Str(<<" ", " ">>), NotAStr}

\* lists with a subtopic at and just over the length limit
LengthLimitInputs ==
    {<<long>> \o rest : long \in {Str(Filler(100)), Str(Filler(101))},
                        rest \in {<<>>, <<Str(w_ml)>>}}

CleanSubtopic(i) == <<"t", "o", "p", Digit(i)>>

\* the five subtopics of the specification's scenario 1
ScenarioOneSubtopics ==
    <<Str(join(<<<<"n", "e", "u", "r", "a", "l">>, <<"n", "e", "t", "w", "o", "r", "k", "s">>>>)),
      Str(join(<<<<"d", "e", "e", "p">>, <<"l", "e", "a", "r", "n", "i", "n", "g">>>>)),
      Str(join(<<<<"p", "h", "o", "t", "o", "s", "y", "n", "t", "h", "e", "s", "i", "s">>>>)),
      Str(join(<<<<"c", "e", "l", "l">>, <<"b", "i", "o", "l", "o", "g", "y">>>>)),
      Str(join(<<<<"n", "e", "u", "r", "a", "l">>, <<"n", "e", "t", "s">>>>))>>

NormInputs ==
    UNION {[1..n -> RawPool] : n \in 0..MaxRaw}
    \cup LengthLimitInputs
    \cup {[i \in 1..n |-> Str(CleanSubtopic(i))] : n \in 3..MaxClean}
    \cup {ScenarioOneSubtopics}

InitNorm ==
    /\ subtopics \in NormInputs
    /\ target_topic_count \in 0..MaxTarget
    /\ normalization = NoResult
    /\ embedding_sim = <<>>
    /\ DedupIdle /\ SelectIdle /\ MapIdle /\ PipelineIdle

\* topic_normalizer.normalize_topics(subtopics)
Normalize ==
    /\ normalization = NoResult
    /\ normalization' \in normalize_topics(subtopics, target_topic_count)
    /\ UNCHANGED <<pipelineVars, subtopics, target_topic_count, dedupVars, selectVars, mapVars>>

NextNorm == Normalize

SpecNorm == InitNorm /\ [][NextNorm]_vars

TopicsHolding(subtopic) ==
    {t \in DOMAIN normalization.normalized_topics :
        subtopic \in Range(normalization.normalized_topics[t].subtopics)}

\* C1 (coverage): in every result of normalize_topics, each cleaned input subtopic is
\* in the `subtopics` list of exactly one normalized topic.
C1_Coverage ==
    normalization.outcome = "returned" =>
        \A s \in Range(_clean_subtopics(subtopics)) : Cardinality(TopicsHolding(s)) = 1

\* C8 (singleton identity): when at most target_topic_count subtopics are left after
\* cleaning, the result has one topic per subtopic, whose only member is its name and
\* whose cohesion_score is 1.0, and topic_mapping maps each subtopic to itself.
C8_SingletonIdentity ==
    LET cleaned == _clean_subtopics(subtopics)
        topics == normalization.normalized_topics
        mapping == normalization.topic_mapping
    IN normalization.outcome = "returned" /\ Len(cleaned) <= target_topic_count =>
          /\ Len(topics) = Len(cleaned)
          /\ \A t \in DOMAIN topics :
                /\ topics[t].topic_name = cleaned[t]
                /\ topics[t].subtopics = <<topics[t].topic_name>>
                /\ topics[t].statistics.cohesion_score = 100
          /\ Keys(mapping) = cleaned
          /\ \A k \in DOMAIN mapping : mapping[k].value = mapping[k].key

C8_Witness ==
    /\ normalization.outcome = "returned"
    /\ Len(_clean_subtopics(subtopics)) = target_topic_count
    /\ target_topic_count = 2
    /\ Len(normalization.normalized_topics) = 2

\* C14 (scenario 1 cluster count): normalize_topics on ScenarioOneSubtopics with
\* target_topic_count = 2, when it clusters the embeddings, yields exactly 2 normalized
\* topics, one holding the three machine-learning terms and one the two biology terms.
C14_ScenarioOneTwoClusters ==
    LET topics == normalization.normalized_topics
        term(i) == ScenarioOneSubtopics[i].chars
    IN ( /\ normalization.outcome = "returned"
         /\ subtopics = ScenarioOneSubtopics
         /\ target_topic_count = 2
         /\ Get(normalization, "normalization_method", "") = "embedding_clustering" )
       => /\ Len(topics) = 2
          /\ \E t, u \in DOMAIN topics :
                /\ Range(topics[t].subtopics) = {term(1), term(2), term(5)}
                /\ Range(topics[u].subtopics) = {term(3), term(4)}

\* C9 (never raises): normalize_topics returns a record holding normalized_topics and
\* topic_mapping whatever the embedding call, KMeans, the LLM naming and the LLM
\* grouping do.
C9_NeverRaises ==
    /\ normalization.outcome \in {"none", "returned"}
    /\ normalization.outcome = "returned" =>
          {"normalized_topics", "topic_mapping"} \cap normalization.absent = {}

C9_Witness ==
    /\ normalization.outcome = "returned"
    /\ normalization.recovered = {"embedding", "llm"}
    /\ Len(normalization.normalized_topics) = Len(_clean_subtopics(subtopics))

\* C22 (whole-pass degradation): a run of normalize_topics in which an embed_batch call
\* failed (the first batch, the representative search or the cohesion computation) does
\* not return a result labelled embedding_clustering, so no such result carries a
\* first-member representative or a cohesion of 0.5 put in for a failed call.
C22_WholePassDegradation ==
    ( /\ normalization.outcome = "returned"
      /\ normalization.recovered \cap {"embedding", "representative", "cohesion"} # {} )
    => Get(normalization, "normalization_method", "") # "embedding_clustering"

\* what a caller can read off a result: its normalization_method and the
\* normalization_quality of its statistics
Annotation(result) ==
    <<"normalization_method" \in result.absent, result.normalization_method,
      result.statistics.normalization_quality>>

\* the runs on the same subtopics that recovered from nothing, with the same target and
\* with a target that sends normalize_topics down the 1:1 path
NonDegradedRuns ==
    {result \in normalize_topics(subtopics, target_topic_count)
                  \cup normalize_topics(subtopics, Len(subtopics)) :
        result.recovered = {}}

\* C23 (degraded runs are detectable): a result of normalize_topics that recovered from
\* an embedding, clustering or LLM failure carries a normalization_method /
\* normalization_quality annotation that no run without a failure carries, the 1:1
\* result of len(subtopics) <= target_topic_count included.
C23_DegradedRunsDetectable ==
    ( /\ normalization.outcome = "returned"
      /\ normalization.recovered \cap {"embedding", "kmeans", "llm"} # {} )
    => \A result \in NonDegradedRuns : Annotation(result) # Annotation(normalization)

(***************************************************************************)
(* _clean_subtopics on its own, on every short list of raw subtopics       *)
(***************************************************************************)
MaxList == 3

CleanInputs == UNION {[1..n -> RawPool] : n \in 0..MaxList} \cup LengthLimitInputs

InitClean ==
    /\ subtopics \in CleanInputs
    /\ target_topic_count = 0
    /\ normalization = NoResult
    /\ embedding_sim = <<>>
    /\ DedupIdle /\ SelectIdle /\ MapIdle /\ PipelineIdle

\* cleaned_subtopics = self._clean_subtopics(subtopics)
CleanSubtopics ==
    /\ normalization = NoResult
    /\ normalization' = [outcome |-> "cleaned",
                         cleaned_subtopics |-> _clean_subtopics(subtopics)]
    /\ UNCHANGED <<pipelineVars, subtopics, target_topic_count, dedupVars, selectVars, mapVars>>

NextClean == CleanSubtopics

SpecClean == InitClean /\ [][NextClean]_vars

\* a string with its upper-case letters lowered
Folded(chars) == [i \in DOMAIN chars |-> LowerChar(chars[i])]

\* the positions of the raw list that hold a str whose whitespace-normalised form is
\* `chars` up to case
OccurrencesOf(chars) ==
    {i \in DOMAIN subtopics :
        subtopics[i].isstr /\ Folded(join(split(subtopics[i].chars))) = Folded(chars)}

\* C26 (subtopic cleaning): the list _clean_subtopics produces holds only strings of
\* length 2 to 100 without leading, trailing or repeated whitespace, no two of them
\* equal up to case; each is the whitespace-normalised first occurrence of its
\* subtopic in the input and they stand in input order; every input string whose
\* normalised form has length 2 to 100 is represented; and cleaning the cleaned list
\* returns it unchanged.
C26_CleanSubtopics ==
    normalization.outcome = "cleaned" =>
        LET cleaned == normalization.cleaned_subtopics
            first(k) == CHOOSE i \in OccurrencesOf(cleaned[k]) :
                            \A j \in OccurrencesOf(cleaned[k]) : i <= j
        IN /\ \A k \in DOMAIN cleaned :
                 /\ Len(cleaned[k]) >= 2 /\ Len(cleaned[k]) <= 100
                 /\ \A i \in DOMAIN cleaned[k] :
                        IsSpace(cleaned[k][i]) =>
                            /\ cleaned[k][i] = " "
                            /\ i > 1 /\ i < Len(cleaned[k])
                            /\ ~IsSpace(cleaned[k][i + 1])
                 /\ OccurrencesOf(cleaned[k]) # {}
                 /\ cleaned[k] = join(split(subtopics[first(k)].chars))
           /\ \A k, l \in DOMAIN cleaned :
                 k < l => /\ Folded(cleaned[k]) # Folded(cleaned[l])
                          /\ first(k) < first(l)
           /\ \A i \in DOMAIN subtopics :
                 ( /\ subtopics[i].isstr
                   /\ Len(join(split(subtopics[i].chars))) >= 2
                   /\ Len(join(split(subtopics[i].chars))) <= 100 )
                 => \E k \in DOMAIN cleaned : i \in OccurrencesOf(cleaned[k])
           /\ _clean_subtopics([k \in DOMAIN cleaned |-> Str(cleaned[k])]) = cleaned

\* whitespace was taken out of the first subtopic and the second, equal to it up to
\* case only, was dropped
C26_Witness ==
    /\ normalization.outcome = "cleaned"
    /\ Len(subtopics) = 2
    /\ subtopics[1].isstr /\ subtopics[2].isstr
    /\ normalization.cleaned_subtopics = <<join(split(subtopics[1].chars))>>
    /\ subtopics[1].chars # join(split(subtopics[1].chars))
    /\ join(split(subtopics[2].chars)) # join(split(subtopics[1].chars))
    /\ Folded(join(split(subtopics[2].chars))) = Folded(join(split(subtopics[1].chars)))

(***************************************************************************)
(* _determine_optimal_clusters on its own: the cluster count for every     *)
(* number of cleaned subtopics, target and outcome of the evaluations      *)
(***************************************************************************)
MaxPoints == 6
MaxTargetCount == 4

ClusterInputs == {[i \in 1..n |-> Str(CleanSubtopic(i))] : n \in 1..MaxPoints}

InitClusters ==
    /\ subtopics \in ClusterInputs
    /\ target_topic_count \in 0..MaxTargetCount
    /\ normalization = NoResult
    /\ embedding_sim = <<>>
    /\ DedupIdle /\ SelectIdle /\ MapIdle /\ PipelineIdle

\* the call of _determine_optimal_clusters in normalize_topics, reached when there are
\* more cleaned subtopics than target_topic_count and embed_batch returned
DetermineOptimalClusters ==
    /\ normalization = NoResult
    /\ LET n == Len(_clean_subtopics(subtopics))
       IN /\ ~TooFewToCluster(n, target_topic_count)
          /\ \E evals \in Evaluations(n, target_topic_count) :
                normalization' =
                    [outcome |-> "searched", n |-> n, evals |-> evals,
                     optimal_clusters |->
                         _determine_optimal_clusters(n, target_topic_count, evals)]
    /\ UNCHANGED <<pipelineVars, subtopics, target_topic_count, dedupVars, selectVars, mapVars>>

NextClusters == DetermineOptimalClusters

SpecClusters == InitClusters /\ [][NextClusters]_vars

\* the candidates whose evaluation returned a silhouette score
Scored == {k \in DOMAIN normalization.evals : normalization.evals[k].ok}

Distance(a, b) == IF a >= b THEN a - b ELSE b - a

\* C21 (cluster-count selection): when the search evaluated at least one candidate, the
\* k that _determine_optimal_clusters returns is a searched k whose silhouette score is
\* the highest, and no k with the same score is closer to target_topic_count.
C21_HighestScoreClosestToTarget ==
    (normalization.outcome = "searched" /\ Scored # {}) =>
        LET k == normalization.optimal_clusters
            evals == normalization.evals
        IN /\ k \in Scored
           /\ \A other \in Scored :
                 /\ evals[other].score <= evals[k].score
                 /\ evals[other].score = evals[k].score
                       => Distance(k, target_topic_count) <= Distance(other, target_topic_count)

\* C29 (valid cluster count): the k that _determine_optimal_clusters returns for n
\* cleaned subtopics, n > target_topic_count, satisfies 1 <= k <= n, also when the
\* search range is empty and when every candidate fails to evaluate.
C29_ValidClusterCount ==
    normalization.outcome = "searched" =>
        /\ 1 <= normalization.optimal_clusters
        /\ normalization.optimal_clusters <= normalization.n

\* the search ran and every candidate failed, so the initial best_k came back
C29_Witness ==
    /\ normalization.outcome = "searched"
    /\ DOMAIN normalization.evals # {}
    /\ Scored = {}
    /\ normalization.optimal_clusters = target_topic_count

(***************************************************************************)
(* core/topic_normalization.py: the topic mapper                           *)
(***************************************************************************)
\* np.argmax: the first index of the maximum
ArgMax(values) ==
    CHOOSE i \in DOMAIN values :
        \A j \in DOMAIN values : values[i] > values[j] \/ (values[i] = values[j] /\ i <= j)

AtLeastMapperThreshold(similarity) == similarity >= 60

\* similarities[max_idx] > 0.6
AboveMapperThreshold(similarity) == similarity > 60

\* _find_similar_topic; embed_ok is whether embed and embed_batch returned
_find_similar_topic(subtopic, mapping, embed_ok) ==
    IF subtopic = <<>> \/ mapping = <<>> THEN General
    ELSE IF ~embed_ok THEN General
    ELSE LET mapped_subtopics == Keys(mapping)
             similarities == [i \in DOMAIN mapped_subtopics |->
                                 CosineOfTexts(subtopic, mapped_subtopics[i])]
             max_idx == ArgMax(similarities)
         IN IF AboveMapperThreshold(similarities[max_idx])
            THEN DictGet(mapping, mapped_subtopics[max_idx], <<>>)
            ELSE General

\* the body of the loop of map_questions_to_normalized_topics
MapQuestion(question, mapping, embed_ok) ==
    LET subtopic == Get(question, "subtopic", <<>>)
        normalized_topic == DictGet(mapping, subtopic, <<>>)
        found == IF normalized_topic = <<>> /\ subtopic # <<>>
                 THEN _find_similar_topic(subtopic, mapping, embed_ok)
                 ELSE normalized_topic
    IN [question EXCEPT !.normalized_topic = IF found # <<>> THEN found ELSE General,
                        !.absent = @ \ {"normalized_topic"}]

\* map_questions_to_normalized_topics; embed_ok[i] is whether the embedding calls made
\* for question i returned
map_questions_to_normalized_topics(qs, mapping, embed_ok) ==
    [i \in DOMAIN qs |-> MapQuestion(qs[i], mapping, embed_ok[i])]

MaxKeys == 2

KeyPool == {w_ml, w_dl, w_nn}

TopicNames == {<<"T", "1">>, <<"T", "2">>, <<>>}

\* the mappings of up to MaxKeys keys, keys distinct
Mappings ==
    UNION {{m \in [1..n -> [key : KeyPool, value : TopicNames]] :
               \A i, j \in 1..n : m[i].key = m[j].key => i = j} : n \in 0..MaxKeys}

MapQuestionPool ==
    {NewQuestion(1, TextA, "mcq", "a1", subtopic) : subtopic \in {w_ml, w_is, <<>>}}
    \cup {[NewQuestion(1, TextA, "mcq", "a1", <<>>) EXCEPT !.absent = @ \cup {"subtopic"}]}

MapInputs == UNION {[1..n -> MapQuestionPool] : n \in 1..2}

MapPairs == {{s, k} : s \in {w_ml, w_is}, k \in KeyPool} \ {{w_ml}}

InitMap ==
    /\ topic_mapping \in Mappings
    /\ questions \in MapInputs
    /\ embedding_sim \in [MapPairs -> {60, 61}]
    /\ mapped = NoResult
    /\ similarity_threshold = SIMILARITY_THRESHOLD
    /\ answer_sim = <<>> /\ dedup = NoResult /\ previous = NoResult
    /\ SelectIdle /\ NormIdle /\ PipelineIdle

\* topic_normalizer.map_questions_to_normalized_topics(questions, topic_mapping): the
\* question dicts are updated in place and the list is returned
MapQuestions ==
    /\ mapped = NoResult
    /\ \E embed_ok \in [DOMAIN questions -> BOOLEAN] :
          /\ questions' = map_questions_to_normalized_topics(questions, topic_mapping, embed_ok)
          /\ mapped' = [outcome |-> "returned", questions |-> questions', embed_ok |-> embed_ok]
    /\ UNCHANGED <<pipelineVars, topic_mapping, similarity_threshold, embedding_sim, answer_sim, dedup,
                   previous, selectVars, normVars>>

NextMap == MapQuestions

SpecMap == InitMap /\ [][NextMap]_vars

\* the questions whose subtopic is a non-empty string
WithSubtopic == {i \in DOMAIN questions : Get(questions[i], "subtopic", <<>>) # <<>>}

KeySimilarity(s, k) == CosineOfTexts(s, topic_mapping[k].key)

\* the first of the mapped keys most similar to s
HighestSimilarityKey(s) ==
    CHOOSE k \in DOMAIN topic_mapping :
        /\ \A j \in DOMAIN topic_mapping : KeySimilarity(s, j) <= KeySimilarity(s, k)
        /\ \A j \in 1..(k - 1) : KeySimilarity(s, j) < KeySimilarity(s, k)

\* the questions whose subtopic is not a key of a non-empty mapping and for which the
\* embedding calls returned
LookedUp ==
    {i \in WithSubtopic : /\ ~HasKey(topic_mapping, questions[i].subtopic)
                          /\ topic_mapping # <<>>
                          /\ mapped.embed_ok[i]}

\* C6 (mapping totality): a question whose subtopic s is a key of topic_mapping gets
\* normalized_topic = topic_mapping[s], whatever value is stored under s.
C6_MappingTotality ==
    mapped.outcome = "returned" =>
        \A i \in WithSubtopic :
            HasKey(topic_mapping, questions[i].subtopic) =>
                questions[i].normalized_topic
                    = DictGet(topic_mapping, questions[i].subtopic, <<>>)

\* C7 as stated (mapper threshold): for a subtopic that is not a key, the mapper
\* returns the topic of the highest-similarity key when that similarity is >= 0.6,
\* and "General" otherwise.
C7_ThresholdAtLeast ==
    mapped.outcome = "returned" =>
        \A i \in LookedUp :
            LET k == HighestSimilarityKey(questions[i].subtopic)
            IN questions[i].normalized_topic
                  = IF KeySimilarity(questions[i].subtopic, k) >= 60
                    THEN topic_mapping[k].value ELSE General

\* C7 as the code has it: for a non-empty subtopic that is not a key, the mapper
\* returns the topic stored under the first highest-similarity key when that
\* similarity is strictly above 0.6 and the stored topic is not empty; it returns
\* "General" at similarity 0.6 and below, when the stored topic is empty, when the
\* mapping is empty and when an embedding call fails.
C7_ThresholdStrict ==
    mapped.outcome = "returned" =>
        \A i \in WithSubtopic :
            ~HasKey(topic_mapping, questions[i].subtopic) =>
                questions[i].normalized_topic
                    = IF i \in LookedUp
                         /\ KeySimilarity(questions[i].subtopic,
                                          HighestSimilarityKey(questions[i].subtopic)) > 60
                         /\ topic_mapping[HighestSimilarityKey(questions[i].subtopic)].value
                                # <<>>
                      THEN topic_mapping[HighestSimilarityKey(questions[i].subtopic)].value
                      ELSE General

C7_Witness ==
    /\ mapped.outcome = "returned"
    /\ \E i \in LookedUp :
          LET k == HighestSimilarityKey(questions[i].subtopic)
          IN /\ KeySimilarity(questions[i].subtopic, k) = 60
             /\ topic_mapping[k].value # <<>>
             /\ questions[i].normalized_topic = General
    /\ \E i \in LookedUp :
          LET k == HighestSimilarityKey(questions[i].subtopic)
          IN /\ KeySimilarity(questions[i].subtopic, k) = 61
             /\ questions[i].normalized_topic = topic_mapping[k].value

(***************************************************************************)
(* core/deduplication.py: Deduplicator.deduplicate_by_topic                *)
(***************************************************************************)
\* question.get("normalized_topic", "General")
TopicOf(question) == Get(question, "normalized_topic", General)

\* the keys of `topics`, in insertion order
TopicOrder(qs) ==
    LET firsts == Ascending({i \in DOMAIN qs :
                     \A j \in 1..(i - 1) : TopicOf(qs[j]) # TopicOf(qs[i])})
    IN [k \in DOMAIN firsts |-> TopicOf(qs[firsts[k]])]

\* topics[topic], as positions of the input list
TopicPositions(qs, topic) == Ascending({i \in DOMAIN qs : TopicOf(qs[i]) = topic})

\* topics[topic]: the questions of one topic, in list order
OfTopic(qs, topic) ==
    [k \in DOMAIN TopicPositions(qs, topic) |-> qs[TopicPositions(qs, topic)[k]]]

\* every question of the topic, whatever the cap
KeepWholeTopic(topic_questions, max_per_topic, embed_ok) ==
    [outcome |-> "returned", selected_idx |-> Ascending(DOMAIN topic_questions),
     selected |-> topic_questions, greedy |-> <<>>]

\* the body of the loop over topics.items()
SelectFromTopic(topic_questions, max_per_topic, embed_ok) ==
    IF Len(topic_questions) <= max_per_topic
    THEN [outcome |-> "returned", selected_idx |-> Ascending(DOMAIN topic_questions),
          selected |-> topic_questions, greedy |-> <<>>]
    ELSE _select_diverse_questions(topic_questions, max_per_topic, embed_ok)

\* what one topic adds to selected_questions, as input positions: `chosen` is what
\* SelectFromTopic returned for the questions at `positions`
PickedFromTopic(positions, chosen) ==
    IF chosen.outcome = "returned"
    THEN [raised |-> FALSE,
          idx |-> [k \in DOMAIN chosen.selected_idx |-> positions[chosen.selected_idx[k]]]]
    ELSE [raised |-> TRUE, idx |-> <<>>]

\* selected_questions after the loop over topics.items(), or the exception
SelectedQuestions(qs, selected_idx, raised) ==
    IF raised THEN [outcome |-> "raised", exception |-> "embed"]
    ELSE [outcome |-> "returned", selected_idx |-> selected_idx,
          selected |-> [k \in DOMAIN selected_idx |-> qs[selected_idx[k]]]]

\* deduplicate_by_topic(questions, max_per_topic): the returned list with the input
\* positions of its questions, or the exception of embedding_model.embed
deduplicate_by_topic(qs, max_per_topic, embed_ok) ==
    LET picked == [t \in DOMAIN TopicOrder(qs) |->
                      PickedFromTopic(TopicPositions(qs, TopicOrder(qs)[t]),
                                      SelectFromTopic(OfTopic(qs, TopicOrder(qs)[t]),
                                                      max_per_topic, embed_ok))]
    IN SelectedQuestions(qs, Flatten([t \in DOMAIN picked |-> picked[t].idx]),
                         \E t \in DOMAIN picked : picked[t].raised)

ByTopicPool ==
    {[NewQuestion(q.id, q.text, "mcq", "a1", w_ml) EXCEPT
          !.normalized_topic = topic.name, !.absent = @ \ topic.present] :
        q \in {[id |-> 1, text |-> TextA], [id |-> 2, text |-> TextB]},
        topic \in {[name |-> <<>>, present |-> {}],
                   [name |-> General, present |-> {"normalized_topic"}],
                   [name |-> w_ml, present |-> {"normalized_topic"}]}}

ByTopicInputs == UNION {[1..n -> ByTopicPool] : n \in 0..MaxGroup}

InitByTopic ==
    /\ questions \in ByTopicInputs
    /\ max_count \in 0..MaxCount
    /\ embedding_sim \in [{{TextA, TextB}} -> {70, 71}]
    /\ similarity_threshold = SIMILARITY_THRESHOLD
    /\ answer_sim = <<>> /\ dedup = NoResult /\ previous = NoResult
    /\ group = <<>> /\ selection = NoResult
    /\ NormIdle /\ MapIdle /\ PipelineIdle

\* deduplicator.deduplicate_by_topic(questions, max_per_topic = max_count)
DeduplicateByTopic ==
    /\ selection = NoResult
    /\ \E embed_ok \in BOOLEAN :
          selection' = deduplicate_by_topic(questions, max_count, embed_ok)
    /\ UNCHANGED <<pipelineVars, group, max_count, dedupVars, normVars, mapVars>>

NextByTopic == DeduplicateByTopic

SpecByTopic == InitByTopic /\ [][NextByTopic]_vars

\* C15 (per-topic cap): in the list deduplicate_by_topic returns, every normalized
\* topic (a question without one counts as "General") has at most max_per_topic
\* questions, and a topic that had at most max_per_topic questions in the input has
\* exactly its input questions, unchanged and in input order.
C15_PerTopicCap ==
    selection.outcome = "returned" =>
        /\ \A k \in DOMAIN selection.selected :
              selection.selected[k] = questions[selection.selected_idx[k]]
        /\ \A topic \in Range(TopicOrder(questions)) \cup Range(TopicOrder(selection.selected)) :
              /\ Len(OfTopic(selection.selected, topic)) <= max_count
              /\ Len(OfTopic(questions, topic)) <= max_count
                    => OfTopic(selection.selected, topic) = OfTopic(questions, topic)

\* one topic over the cap and cut down to it, another within the cap and kept
C15_Witness ==
    /\ selection.outcome = "returned"
    /\ max_count >= 1
    /\ \E over, within \in Range(TopicOrder(questions)) :
          /\ Len(OfTopic(questions, over)) > max_count
          /\ Len(OfTopic(selection.selected, over)) = max_count
          /\ Len(OfTopic(questions, within)) <= max_count
          /\ OfTopic(selection.selected, within) = OfTopic(questions, within)

(***************************************************************************)
(* api/admin_routes.py and services/quiz_pipeline_service.py: the PDF and  *)
(* quiz pipelines.  pdfs[id] and quizzes[id] are the committed rows, which *)
(* is what another session reads.  `task` is where the row's background    *)
(* task stands; `steps` and `stages` record the calls that completed, in   *)
(* call order.  A step of a collaborator (extraction, the agents, the      *)
(* database commit) succeeds or raises.                                    *)
(***************************************************************************)
MaxPdfs == 2
MaxQuizzes == 1

\* the steps of process_pdf between its first and its last commit, in call order
ProcessSteps == <<"extract", "chunk", "embed", "analyse", "save_results">>

\* the stages of generate_quiz_from_pdf after quiz.status = "generating", in call order
QuizStages ==
    <<"load_results", "plan", "generate", "validate", "deduplicate", "map_topics",
      "format", "filter", "save">>

\* the stages whose exception reaches the handler of generate_quiz_from_pdf: a
\* validation error is caught for the question it happens on
FatalStages == Range(QuizStages) \ {"validate"}

\* the guard nobody is turned away by
NeverTurnedAway(status) == FALSE

\* generate_quiz: pdf.status != "processed"
NotYetProcessed(status) == status # "processed"

\* upload_pdf: the row it commits and the background task it adds
UploadPdf ==
    /\ Len(pdfs) < MaxPdfs
    /\ pdfs' = Append(pdfs, [status |-> "uploaded", task |-> "scheduled", steps |-> <<>>])
    /\ UNCHANGED <<quizzes, dedupVars, selectVars, normVars, mapVars>>

\* the except branch of process_pdf: rollback, then status "failed" and a commit, whose
\* exception leaves process_pdf
ProcessFailed(row, commit_ok) ==
    IF commit_ok THEN [row EXCEPT !.status = "failed", !.task = "returned"]
    ELSE [row EXCEPT !.task = "raised"]

\* process_pdf up to the commit of status "processing"
ProcessBegin(p) ==
    /\ pdfs[p].task = "scheduled"
    /\ \E commit_ok, handler_commit_ok \in BOOLEAN :
          pdfs' = [pdfs EXCEPT ![p] =
                      IF commit_ok THEN [@ EXCEPT !.status = "processing", !.task = "running"]
                      ELSE ProcessFailed(@, handler_commit_ok)]
    /\ UNCHANGED <<quizzes, dedupVars, selectVars, normVars, mapVars>>

\* process_pdf from step 1 to its return: `done` steps complete, then the next one
\* raises or the last commit is made
ProcessRun(p) ==
    /\ pdfs[p].task = "running"
    /\ \E done \in 0..Len(ProcessSteps), commit_ok, handler_commit_ok \in BOOLEAN :
          pdfs' = [pdfs EXCEPT ![p] =
                      IF done = Len(ProcessSteps) /\ commit_ok
                      THEN [@ EXCEPT !.status = "processed", !.task = "returned",
                                     !.steps = ProcessSteps]
                      ELSE ProcessFailed([@ EXCEPT !.steps = SubSeq(ProcessSteps, 1, done)],
                                         handler_commit_ok)]
    /\ UNCHANGED <<quizzes, dedupVars, selectVars, normVars, mapVars>>

\* POST /quiz/generate/{pdf_id}: 404 for an unknown pdf, 400 for one not yet processed,
\* otherwise the quiz row and its background task
GenerateQuiz(pdf_id) ==
    /\ IF pdf_id \notin DOMAIN pdfs THEN UNCHANGED quizzes
       ELSE IF NotYetProcessed(pdfs[pdf_id].status) THEN UNCHANGED quizzes
       ELSE /\ Len(quizzes) < MaxQuizzes
            /\ quizzes' = Append(quizzes, [pdf_id |-> pdf_id, status |-> "generating",
                                           task |-> "scheduled", stages |-> <<>>,
                                           pdf_status |-> "none"])
    /\ UNCHANGED <<pdfs, dedupVars, selectVars, normVars, mapVars>>

\* generate_quiz_from_pdf: `done` stages complete, then the next one raises or the last
\* commit is made; pdf_status (not in the code) is the status of the pdf as the task
\* starts
GenerateQuizFromPdf(q) ==
    /\ quizzes[q].task = "scheduled"
    /\ \E done \in 0..Len(QuizStages), commit_ok, handler_commit_ok \in BOOLEAN :
          /\ done < Len(QuizStages) => QuizStages[done + 1] \in FatalStages
          /\ quizzes' = [quizzes EXCEPT ![q] =
                [@ EXCEPT !.pdf_status = pdfs[quizzes[q].pdf_id].status,
                          !.stages = SubSeq(QuizStages, 1, done),
                          !.status = IF done = Len(QuizStages) /\ commit_ok THEN "generated"
                                     ELSE IF handler_commit_ok THEN "failed" ELSE @,
                          !.task = IF (done = Len(QuizStages) /\ commit_ok) \/ handler_commit_ok
                                   THEN "returned" ELSE "raised"]]
    /\ UNCHANGED <<pdfs, dedupVars, selectVars, normVars, mapVars>>

InitPipeline ==
    /\ pdfs = <<>> /\ quizzes = <<>>
    /\ embedding_sim = <<>>
    /\ DedupIdle /\ SelectIdle /\ NormIdle /\ MapIdle

NextPipeline ==
    \/ UploadPdf
    \/ \E p \in DOMAIN pdfs : ProcessBegin(p)
    \/ \E p \in DOMAIN pdfs : ProcessRun(p)
    \/ \E pdf_id \in 1..MaxPdfs : GenerateQuiz(pdf_id)
    \/ \E q \in DOMAIN quizzes : GenerateQuizFromPdf(q)

SpecPipeline == InitPipeline /\ [][NextPipeline]_vars

\* stage `first` completed before stage `second` in a quiz's record of stages
Before(stages, first, second) ==
    \E i, j \in DOMAIN stages : i < j /\ stages[i] = first /\ stages[j] = second

\* C24 (pipeline ordering): in a quiz generation that reached persistence, the topic
\* mapper gave the questions their normalized topics before the duplicate detector
\* ran, and the per-topic diversity selector ran after the duplicate detector and
\* before the save.
C24_PipelineOrdering ==
    \A q \in DOMAIN quizzes :
        "save" \in Range(quizzes[q].stages) =>
            /\ Before(quizzes[q].stages, "map_topics", "deduplicate")
            /\ Before(quizzes[q].stages, "deduplicate", "deduplicate_by_topic")
            /\ Before(quizzes[q].stages, "deduplicate_by_topic", "save")

\* C30 (terminal status): when process_pdf has returned, the pdf's status is
\* "processed", with every step done, or "failed", never "processing" or "uploaded";
\* a pdf whose steps were not all done is "failed"; and a quiz generation task only
\* ever starts on, and a quiz row only exists for, a pdf whose status is "processed".
C30_TerminalStatus ==
    /\ \A p \in DOMAIN pdfs :
          pdfs[p].task = "returned" =>
              /\ pdfs[p].status \in {"processed", "failed"}
              /\ pdfs[p].status = "processed" => pdfs[p].steps = ProcessSteps
              /\ pdfs[p].steps # ProcessSteps => pdfs[p].status = "failed"
    /\ \A q \in DOMAIN quizzes :
          /\ pdfs[quizzes[q].pdf_id].status = "processed"
          /\ quizzes[q].task # "scheduled" => quizzes[q].pdf_status = "processed"

\* one pdf processed with a quiz generation started on it, another failed at a step
\* after it was set to "processing"
C30_Witness ==
    /\ \E q \in DOMAIN quizzes :
          quizzes[q].task = "returned" /\ quizzes[q].pdf_status = "processed"
    /\ \E p \in DOMAIN pdfs :
          /\ pdfs[p].task = "returned" /\ pdfs[p].status = "failed"
          /\ pdfs[p].steps # <<>> /\ pdfs[p].steps # ProcessSteps

====
